---- MODULE Spec2Model ----
(***************************************************************************)
(* Verification model of the ops-brain ingestion runtime: the incremental  *)
(* window planner of the daily syncs, the per-page / per-order transaction *)
(* loop, the ops.sync_state cursor, the ops.ingestion_runs ledger and the  *)
(* withIngestionRun wrapper with its gracefulShutdown path.                *)
(* Further sections: the retrying, throttled HTTP client (SpecClient), the  *)
(* application of a fetched batch to the tables (SpecApply) and concurrent *)
(* stub creation in ops.dim_sku (SpecStub).                                *)
(*                                                                         *)
(* Time is in milliseconds (what Date.getTime() returns), counted from an  *)
(* origin chosen so that the values fit TLC's integers.                    *)
(***************************************************************************)
EXTENDS Integers, Sequences, FiniteSets, TLC

VARIABLES
    pipe,          \* which script runs (its PIPELINE constant)
    cursor,        \* value column of the pipeline's ops.sync_state row
    clock,         \* the system clock (ms)
    lookbackDays,  \* DEFAULT_LOOKBACK_DAYS as configured
    overlapHours,  \* OVERLAP_HOURS as configured
    plan,          \* the window computed by main() at plan time
    prevEnd,       \* window end stored by the previous successful run
    planRuns,      \* number of runs planned so far
    \* ---- one run of a script ----
    lastHasNext,   \* upstream: does the last non-empty page announce a next page
    pc,            \* the operation main() / the handler is awaiting
    pageNo,        \* page being fetched or applied
    rec,           \* record of the page being applied
    stmt,          \* statement of the record being applied
    maxUpdatedAtSeen, \* maxUpdatedAtSeen of main()
    runId,         \* has the script's runId variable been assigned
    exitCodeSet,   \* process.exitCode = 1 executed
    ledger,        \* the run's ops.ingestion_runs row
    committed,     \* writes durably stored: <<page, record, statement>>
    txn,           \* transaction state of the checked-out connection
    txnWrites,     \* writes made inside the open transaction
    connQueue,     \* queries queued on the checked-out connection, in order
    activeClient,  \* withIngestionRun: activeClient is set
    inTxn,         \* withIngestionRun: inTxn
    shuttingDown,  \* withIngestionRun: shuttingDown
    sdPc,          \* position of gracefulShutdown
    sdReason,      \* reason passed to gracefulShutdown
    poolEnded,     \* pool.end() has been called
    proc,          \* "running" or "exited"
    exitCode,      \* exit status of the process once exited
    failures,      \* failures of upstream / database operations so far
    http,          \* the HTTP client: state of requestWithRetry and its throttle
    store,         \* the fact and dimension rows written by batch application
    dimSku,        \* one ops.dim_sku row and the connections creating a stub for it
    \* ---- history of the run, for the properties ----
    cursor0,       \* cursor before the run
    loopFailed,    \* a page fetch or a write of batch application failed
    failedPage,    \* page whose write failed (0: none)
    failedRec,     \* record whose write failed (0: none)
    sigPage,       \* page being applied when the first fault arrived (0: none)
    faultAfterInsert, \* a fault arrived once the started insert was issued
    cursorWrites,  \* number of cursor writes of the run
    cursorEarly,   \* a cursor write happened with a page unfetched or unapplied
    cursorLate     \* a cursor write happened after the row was set succeeded

planVars == <<pipe, cursor, clock, lookbackDays, overlapHours, plan, prevEnd, planRuns>>
runVars == <<lastHasNext, pc, pageNo, rec, stmt, maxUpdatedAtSeen, runId, exitCodeSet, ledger,
             committed, txn, txnWrites, connQueue, activeClient, inTxn, shuttingDown,
             sdPc, sdReason, poolEnded, proc, exitCode, failures, http,
             store, dimSku, cursor0, loopFailed, failedPage, failedRec, sigPage, faultAfterInsert,
             cursorWrites, cursorEarly, cursorLate>>
vars == <<planVars, runVars>>

----------------------------------------------------------------------------
(* Bounds of the model *)

MaxTick == 1          \* ms the clock may advance between two reads of one plan
MaxPlanRuns == 3      \* runs planned one after the other in SpecPlan

(* Program constants *)

DEFAULT_LOOKBACK_DAYS == 7
OVERLAP_HOURS == 48

MsPerDay == 86400 * 1000
MsPerHour == 3600 * 1000
Day(n) == n * MsPerDay

----------------------------------------------------------------------------
(* JavaScript values the planner handles *)

JsNull == [t |-> "null"]                 \* null / undefined / ""
InvalidIso == [t |-> "invalid"]          \* a non-empty string Date cannot parse
Iso(ms) == [t |-> "iso", ms |-> ms]      \* an ISO-8601 string, by its instant
Num(n) == [t |-> "num", n |-> n]
RangeError == [t |-> "throw"]            \* new Date(NaN).toISOString()

Truthy(v) == v.t # "null"
JsOr(a, b) == IF Truthy(a) THEN a ELSE b

NoCursor ==
    [present |-> FALSE, last_end_iso |-> JsNull,
     last_max_updated_at |-> JsNull, last_max_updated_at_seen |-> JsNull]

CursorRow(e, m, s) ==
    [present |-> TRUE, last_end_iso |-> e,
     last_max_updated_at |-> m, last_max_updated_at_seen |-> s]

----------------------------------------------------------------------------
(* The scripts *)

LSD == "loop_subscriptions_daily"
LOD == "loop_orders_daily"
SOD == "shopify_orders_daily"

DailyPipelines == {LSD, LOD, SOD}

----------------------------------------------------------------------------
(* Incremental window planner *)

isoDaysAgoInHours(now, days) == Iso(now - days * 3600 * 1000)

isoDaysAgo(now, days) == Iso(now - days * 86400 * 1000)

isoHoursAgoFromAdded(iso, hours) ==
    IF iso.t = "iso" THEN Iso(iso.ms + hours * 3600 * 1000) ELSE RangeError

isoHoursAgoFrom(iso, hours) ==
    IF iso.t = "iso" THEN Iso(iso.ms - hours * 3600 * 1000) ELSE RangeError

toEpochSec(iso) ==
    IF iso.t = "iso" THEN Num(iso.ms \div 1000) ELSE JsNull

\* the subscriptions daily would not read the legacy field
CursorEndNoLegacy(p, cur) ==
    IF p = SOD THEN cur.last_max_updated_at ELSE cur.last_end_iso

\* the window end the cursor row stores, as each script reads it
CursorEnd(p, cur) ==
    CASE p = LSD -> JsOr(cur.last_end_iso, cur.last_max_updated_at)
      [] p = LOD -> cur.last_end_iso
      [] p = SOD -> cur.last_max_updated_at

\* lastEndIso (Loop) / lastMax (Shopify): the stored window end, or the lookback
lastEndIso(p, cur, now, days) == JsOr(CursorEnd(p, cur), isoDaysAgo(now, days))

\* windowStartIso (Loop) / updatedAtMin (Shopify)
windowStartIso(lastEnd, hours) ==
    IF hours > 0 THEN isoHoursAgoFrom(lastEnd, hours) ELSE lastEnd

\* The plan main() computes: now1 is the clock read by isoDaysAgo, now2 the
\* clock read by nowIso() for the window end (kept in `at`: the time of the plan).  The Loop dailies convert both
\* ends to whole epoch seconds and throw when either is not finite; the
\* Shopify daily sends updated_at_min as it is and has no upper end.
PlanWindow(p, cur, now1, now2, days, hours) ==
    LET le == lastEndIso(p, cur, now1, days)
        ws == windowStartIso(le, hours)
        we == IF p = SOD THEN JsNull ELSE Iso(now2)
        se == toEpochSec(ws)
        ee == toEpochSec(we)
    IN  [lastEnd |-> le, windowStart |-> ws, windowEnd |-> we,
         startEpoch |-> se, endEpoch |-> ee, at |-> now2,
         threw |-> \/ ws.t = "throw"
                   \/ p # SOD /\ (se.t = "null" \/ ee.t = "null")]

NoPlan == [threw |-> TRUE, lastEnd |-> JsNull, windowStart |-> JsNull,
           windowEnd |-> JsNull, startEpoch |-> JsNull, endEpoch |-> JsNull,
           none |-> TRUE]

NewCursorAtCompletion(p, pl, seen) ==
    CASE p = LSD -> CursorRow(Iso(clock), JsNull, seen)
      [] p = LOD -> CursorRow(Iso(clock), JsNull, JsNull)
      [] p = SOD -> CursorRow(JsNull, seen, JsNull)

\* The cursor value a run stores on success
NewCursor(p, pl, seen) ==
    CASE p = LSD -> CursorRow(pl.windowEnd, JsNull, seen)
      [] p = LOD -> CursorRow(pl.windowEnd, JsNull, JsNull)
      [] p = SOD -> CursorRow(JsNull, seen, JsNull)

\* maxUpdatedAtSeen of the Shopify daily: starts at lastMax, raised by every
\* order whose timestamp is later
RaiseMaxUpdatedAt(lastMax, u) ==
    IF u.t = "iso" /\ lastMax.t = "iso" /\ u.ms > lastMax.ms THEN u ELSE lastMax

----------------------------------------------------------------------------
(* One run of a script *)

LSB == "loop_subscriptions_backfill"
LSBW == "loop_subscriptions_backfill(withIngestionRun)"
LOB == "loop_orders_backfill"
SOB == "shopify_orders_backfill"

Pipelines == {LSD, LOD, SOD, LSB, LSBW, LOB, SOB}

\* scripts that run their handler under withIngestionRun
Wrapped(p) == p \in {LOD, LSBW, LOB}
\* scripts that open one transaction per order instead of one per page
PerOrderTxn(p) == p \in {SOD, SOB}
Daily(p) == p \in DailyPipelines

NumPages == 2         \* non-empty pages the upstream holds for the window
PageLen == 2          \* records on each of them
MaxFailures == 1      \* upstream / database operations that fail in one run

\* the statements one record issues: header / order row, stub SKU, line row
StmtKinds == <<"header", "stub", "line">>

PageSize(pn) == IF pn <= NumPages THEN PageLen ELSE 0
HasNextPageNever(pn) == FALSE
\* the next-page signal of page pn (pageInfo.hasNextPage, rel="next")
HasNextPage(pn) == pn < NumPages \/ lastHasNext
AllWrites(pn) == {<<pn, r, StmtKinds[k]>> : r \in 1..PageLen, k \in 1..Len(StmtKinds)}
RecWrites(pn, r) == {<<pn, r, StmtKinds[k]>> : k \in 1..Len(StmtKinds)}
AllPagesApplied == \A pn \in 1..NumPages : AllWrites(pn) \subseteq committed

\* timestamp of a record (updatedAt / updated_at), inside the window
RecUpdatedAt(pn, r) == Iso(Day(10) - MsPerHour + 1000 * (pn * PageLen + r))

\* operations issued on the checked-out connection (client.query)
ClientOps(p) ==
    {"begin", "stmt", "commit", "rollback"}
        \cup (IF p = LOD THEN {"get_cursor", "set_cursor"} ELSE {})

FaultKinds == {"SIGINT", "SIGTERM", "uncaughtException", "unhandledRejection"}
Signals == {"SIGINT", "SIGTERM"}

NoRow == [status |-> "none", terminated |-> FALSE, cursor_not_advanced |-> FALSE]
StartedRow == [status |-> "started", terminated |-> FALSE, cursor_not_advanced |-> FALSE]

\* finishIngestionRun: the update of the row (metadata merged, status replaced)
finishIngestionRun(row, status, patch) ==
    IF row.status = "none" THEN row
    ELSE [status |-> status,
          terminated |-> row.terminated \/ patch.terminated,
          cursor_not_advanced |-> row.cursor_not_advanced \/ patch.cursor_not_advanced]

Patch(term, cna) == [terminated |-> term, cursor_not_advanced |-> cna]

RunCursors ==
    {NoCursor,
     CursorRow(Iso(Day(9)), JsNull, JsNull),
     CursorRow(JsNull, Iso(Day(9)), JsNull),
     CursorRow(InvalidIso, InvalidIso, JsNull)}

\* errors requestWithRetry raises
NoError == [kind |-> "none"]
HttpError(status, body) == [kind |-> "http", status |-> status, body |-> body]
TransportError == [kind |-> "transport"]

\* the client before any call (lastRequestAt = 0)
NoCall ==
    [phase |-> "idle", maxAttempts |-> 0, rps |-> 0, req |-> "none", calls |-> 0,
     attempt |-> 0, requests |-> 0, sent |-> "none",
     elapsed |-> 0, idle |-> -1, gapStart |-> -1, gapEnd |-> -1,
     outcome |-> "none", status |-> 0, body |-> "none", retryAfter |-> -1,
     wait |-> -1, prevBackoff |-> -1, error |-> NoError]

\* the tables and the stub creators when a run is followed without them
NoStore == [phase |-> "none"]
NoDimSku == [phase |-> "none"]

RunIdle ==
    /\ lastHasNext \in BOOLEAN
    /\ http = NoCall
    /\ store = NoStore
    /\ dimSku = NoDimSku
    /\ pageNo = 1 /\ rec = 1 /\ stmt = 1
    /\ maxUpdatedAtSeen = JsNull
    /\ runId = FALSE /\ exitCodeSet = FALSE
    /\ ledger = NoRow
    /\ committed = {} /\ txn = "none" /\ txnWrites = {}
    /\ connQueue = <<>>
    /\ activeClient = FALSE /\ inTxn = FALSE
    /\ shuttingDown = FALSE /\ sdPc = "idle" /\ sdReason = "none"
    /\ poolEnded = FALSE
    /\ proc = "running" /\ exitCode = 0
    /\ failures = 0
    /\ cursor0 = cursor
    /\ loopFailed = FALSE /\ failedPage = 0 /\ failedRec = 0
    /\ sigPage = 0 /\ faultAfterInsert = FALSE
    /\ cursorWrites = 0 /\ cursorEarly = FALSE /\ cursorLate = FALSE

Init ==
    /\ pipe \in Pipelines
    /\ cursor \in (IF Daily(pipe) THEN RunCursors ELSE {NoCursor})
    /\ clock = Day(10)
    /\ lookbackDays = DEFAULT_LOOKBACK_DAYS
    /\ overlapHours = OVERLAP_HOURS
    /\ plan = NoPlan
    /\ prevEnd = JsNull
    /\ planRuns = 0
    /\ pc = IF pipe \in {LSD, SOD} THEN "get_cursor" ELSE "start_run"
    /\ RunIdle

envVars == <<pipe, lookbackDays, overlapHours, prevEnd, planRuns, lastHasNext, cursor0,
             http, store, dimSku>>
posVars == <<pageNo, rec, stmt>>
dbVars == <<committed, txn, txnWrites>>
sdVars == <<shuttingDown, sdPc, sdReason, sigPage, faultAfterInsert>>
cursorVars == <<cursor, cursorWrites, cursorEarly, cursorLate>>
failVars == <<loopFailed, failedPage, failedRec>>
procVars == <<proc, exitCode>>

MainAt(op) ==
    /\ proc = "running"
    /\ pc = op
    /\ op \in ClientOps(pipe) => (connQueue # <<>> /\ Head(connQueue).by = "main")

\* the connection's queue once the operation main() awaited has been served
QAfter == IF pc \in ClientOps(pipe) THEN Tail(connQueue) ELSE connQueue

\* main() goes on to await `next`
Go(next) ==
    /\ pc' = next
    /\ connQueue' = IF next \in ClientOps(pipe)
                    THEN Append(QAfter, [by |-> "main"]) ELSE QAfter

AfterLoop == IF Daily(pipe) THEN "set_cursor" ELSE "finish_succeeded"

AfterRollbackSwallowed == AfterLoop

\* where the catch of the transaction block leads: it rethrows into the catch
\* of the run
AfterRollback == "finish_failed"

CanFail == failures < MaxFailures

\* getSyncCursor, then the plan of the window (synchronous)
GetSyncCursor ==
    /\ MainAt("get_cursor")
    /\ \E tick \in 0..MaxTick :
         LET pl == PlanWindow(pipe, cursor, clock, clock + tick,
                              lookbackDays, overlapHours)
         IN  /\ plan' = pl
             /\ clock' = clock + tick
             /\ maxUpdatedAtSeen' = IF pipe = SOD THEN pl.lastEnd ELSE JsNull
             /\ IF pl.threw
                THEN IF Wrapped(pipe)
                     THEN Go("finish_failed") /\ UNCHANGED procVars
                     ELSE \* main() rejects before the ledger row: Node ends
                          \* the process with status 1
                          /\ pc' = "crashed" /\ connQueue' = <<>>
                          /\ proc' = "exited" /\ exitCode' = 1
                ELSE /\ Go(IF Wrapped(pipe) THEN "fetch" ELSE "start_run")
                     /\ UNCHANGED procVars
    /\ UNCHANGED <<envVars, posVars, dbVars, sdVars, cursorVars, failVars,
                   runId, exitCodeSet, ledger, activeClient, inTxn, poolEnded,
                   failures>>

\* startIngestionRun: insert of the row in status started
StartIngestionRun ==
    /\ MainAt("start_run")
    /\ ledger' = StartedRow
    /\ runId' = TRUE
    /\ Go("connect")
    /\ UNCHANGED <<envVars, posVars, dbVars, sdVars, cursorVars, failVars, procVars,
                   clock, plan, maxUpdatedAtSeen, exitCodeSet, activeClient, inTxn,
                   poolEnded, failures>>

\* pool.connect() (and ctx.setClient under withIngestionRun)
Connect ==
    /\ MainAt("connect")
    /\ IF poolEnded
       THEN Go("finish_failed") /\ UNCHANGED activeClient
       ELSE /\ activeClient' = Wrapped(pipe)
            /\ Go(IF pipe = LOD THEN "get_cursor" ELSE "fetch")
    /\ UNCHANGED <<envVars, posVars, dbVars, sdVars, cursorVars, failVars, procVars,
                   clock, plan, maxUpdatedAtSeen, runId, exitCodeSet, ledger, inTxn,
                   poolEnded, failures>>

\* time one page fetch takes (ms)
RequestMs == 2 * 1000

\* the page fetch (getPaged / requestWithRetry) and the test for an empty page
FetchPage ==
    /\ MainAt("fetch")
    /\ \/ /\ CanFail
          /\ failures' = failures + 1
          /\ loopFailed' = TRUE
          /\ Go("finish_failed")
          /\ UNCHANGED <<posVars, failedPage, failedRec>>
       \/ /\ IF PageSize(pageNo) = 0
             THEN Go(AfterLoop) /\ UNCHANGED posVars
             ELSE /\ rec' = 1 /\ stmt' = 1 /\ UNCHANGED pageNo
                  /\ Go("begin")
          /\ UNCHANGED <<failures, failVars>>
    /\ clock' = clock + RequestMs
    /\ UNCHANGED <<envVars, dbVars, sdVars, cursorVars, procVars,
                   plan, maxUpdatedAtSeen, runId, exitCodeSet, ledger,
                   activeClient, inTxn, poolEnded>>

\* client.query("BEGIN") (and ctx.beginTxn under withIngestionRun)
Begin ==
    /\ MainAt("begin")
    /\ txn' = IF txn = "none" THEN "open" ELSE txn
    /\ inTxn' = Wrapped(pipe)
    /\ Go("stmt")
    /\ UNCHANGED <<envVars, posVars, committed, txnWrites, sdVars, cursorVars,
                   failVars, procVars, clock, plan, maxUpdatedAtSeen, runId,
                   exitCodeSet, ledger, activeClient, poolEnded, failures>>

\* one write of a record: inside the open transaction, or stored at once when
\* the connection has no transaction open
ApplyWrite(w) ==
    IF txn = "open"
    THEN txnWrites' = txnWrites \cup {w} /\ UNCHANGED <<committed, txn>>
    ELSE committed' = committed \cup {w} /\ UNCHANGED <<txnWrites, txn>>

Stmt ==
    /\ MainAt("stmt")
    /\ \/ /\ ApplyWrite(<<pageNo, rec, StmtKinds[stmt]>>)
          /\ maxUpdatedAtSeen' =
                IF pipe = SOD
                THEN RaiseMaxUpdatedAt(maxUpdatedAtSeen, RecUpdatedAt(pageNo, rec))
                ELSE IF pipe = LSD THEN RecUpdatedAt(pageNo, rec) ELSE maxUpdatedAtSeen
          /\ IF stmt < Len(StmtKinds)
             THEN stmt' = stmt + 1 /\ UNCHANGED <<pageNo, rec>> /\ Go("stmt")
             ELSE IF ~PerOrderTxn(pipe) /\ rec < PageSize(pageNo)
                  THEN rec' = rec + 1 /\ stmt' = 1 /\ UNCHANGED pageNo /\ Go("stmt")
                  ELSE UNCHANGED posVars /\ Go("commit")
          /\ UNCHANGED <<failures, failVars>>
       \/ /\ CanFail
          /\ failures' = failures + 1
          /\ txn' = IF txn = "open" THEN "aborted" ELSE txn
          /\ loopFailed' = TRUE
          /\ failedPage' = pageNo
          /\ failedRec' = rec
          /\ Go("rollback")
          /\ UNCHANGED <<posVars, committed, txnWrites, maxUpdatedAtSeen>>
    /\ UNCHANGED <<envVars, sdVars, cursorVars, procVars, clock, plan, runId,
                   exitCodeSet, ledger, activeClient, inTxn, poolEnded>>

\* client.query("COMMIT") (and ctx.endTxn), then the next order / page
Commit ==
    /\ MainAt("commit")
    /\ committed' = IF txn = "open" THEN committed \cup txnWrites ELSE committed
    /\ txn' = "none"
    /\ txnWrites' = {}
    /\ inTxn' = FALSE
    /\ IF PerOrderTxn(pipe) /\ rec < PageSize(pageNo)
       THEN rec' = rec + 1 /\ stmt' = 1 /\ UNCHANGED pageNo /\ Go("begin")
       ELSE IF HasNextPage(pageNo)
            THEN pageNo' = pageNo + 1 /\ UNCHANGED <<rec, stmt>> /\ Go("fetch")
            ELSE UNCHANGED posVars /\ Go(AfterLoop)
    /\ UNCHANGED <<envVars, sdVars, cursorVars, failVars, procVars, clock, plan,
                   maxUpdatedAtSeen, runId, exitCodeSet, ledger, activeClient,
                   poolEnded, failures>>

\* the catch of the transaction block: client.query("ROLLBACK"), then throw
Rollback ==
    /\ MainAt("rollback")
    /\ txn' = "none"
    /\ txnWrites' = {}
    /\ inTxn' = FALSE
    /\ Go(AfterRollback)
    /\ UNCHANGED <<envVars, posVars, committed, sdVars, cursorVars, failVars,
                   procVars, clock, plan, maxUpdatedAtSeen, runId, exitCodeSet,
                   ledger, activeClient, poolEnded, failures>>

\* setSyncCursor after the page loop
SetSyncCursor ==
    /\ MainAt("set_cursor")
    /\ \/ /\ pipe = LOD \/ ~poolEnded
          /\ cursor' = NewCursor(pipe, plan, maxUpdatedAtSeen)
          /\ cursorWrites' = cursorWrites + 1
          /\ cursorEarly' = (cursorEarly \/ ~AllPagesApplied)
          /\ cursorLate' = (cursorLate \/ ledger.status = "succeeded")
          /\ Go("finish_succeeded")
          /\ UNCHANGED failures
       \/ /\ CanFail
          /\ failures' = failures + 1
          /\ Go("finish_failed")
          /\ UNCHANGED cursorVars
    /\ UNCHANGED <<envVars, posVars, dbVars, sdVars, failVars, procVars, clock, plan,
                   maxUpdatedAtSeen, runId, exitCodeSet, ledger, activeClient, inTxn,
                   poolEnded>>

\* finishIngestionRun(runId, "succeeded", ...) reaches the database
FinishSucceeded ==
    /\ MainAt("finish_succeeded")
    /\ \/ /\ ~poolEnded
          /\ ledger' = finishIngestionRun(ledger, "succeeded", Patch(FALSE, FALSE))
          /\ Go("finish_succeeded_ack")
          /\ UNCHANGED failures
       \/ /\ CanFail \/ poolEnded
          /\ failures' = IF poolEnded THEN failures ELSE failures + 1
          /\ Go("finish_failed")
          /\ UNCHANGED ledger
    /\ UNCHANGED <<envVars, posVars, dbVars, sdVars, cursorVars, failVars, procVars,
                   clock, plan, maxUpdatedAtSeen, runId, exitCodeSet, activeClient,
                   inTxn, poolEnded>>

\* its result arrives: the finally block releases the client and ends the pool
ReturnSucceeded ==
    /\ MainAt("finish_succeeded_ack")
    /\ poolEnded' = TRUE
    /\ Go("pool_end")
    /\ UNCHANGED <<envVars, posVars, dbVars, sdVars, cursorVars, failVars, procVars,
                   clock, plan, maxUpdatedAtSeen, runId, exitCodeSet, ledger,
                   activeClient, inTxn, failures>>

\* the catch block: finishIngestionRun(runId, "failed", ...), process.exitCode = 1,
\* then the finally block
FinishFailed ==
    /\ MainAt("finish_failed")
    /\ \/ /\ ~poolEnded
          /\ ledger' = finishIngestionRun(ledger, "failed",
                                          Patch(FALSE, pipe \in {LSD, SOD}))
          /\ exitCodeSet' = TRUE
          /\ Go("pool_end")
          /\ UNCHANGED <<failures, procVars>>
       \/ \* the update fails: the error leaves the catch block, main() rejects
          /\ CanFail \/ poolEnded
          /\ failures' = IF poolEnded THEN failures ELSE failures + 1
          /\ IF Wrapped(pipe)
             THEN Go("rejected") /\ UNCHANGED procVars
             ELSE /\ pc' = "crashed" /\ connQueue' = <<>>
                  /\ proc' = "exited" /\ exitCode' = 1
          /\ UNCHANGED <<ledger, exitCodeSet>>
    /\ poolEnded' = TRUE
    /\ UNCHANGED <<envVars, posVars, sdVars, cursorVars, failVars, clock, plan,
                   maxUpdatedAtSeen, runId, activeClient, inTxn>>
    /\ IF proc' = "exited"
       THEN txn' = "none" /\ txnWrites' = {} /\ UNCHANGED committed
       ELSE UNCHANGED dbVars

\* main() has returned and nothing is pending: the process ends
ProcessExit ==
    /\ MainAt("pool_end")
    /\ sdPc = "idle"
    /\ proc' = "exited"
    /\ exitCode' = IF exitCodeSet THEN 1 ELSE 0
    /\ pc' = "done"
    /\ connQueue' = <<>>
    /\ txn' = "none" /\ txnWrites' = {}
    /\ UNCHANGED <<envVars, posVars, committed, sdVars, cursorVars, failVars, clock,
                   plan, maxUpdatedAtSeen, runId, exitCodeSet, ledger, activeClient,
                   inTxn, poolEnded, failures>>

----------------------------------------------------------------------------
(* Process-level faults *)

\* gracefulShutdown would not test the flag
ShutdownStartedIgnored(flag) == FALSE

\* `if (shuttingDown) return;`
ShutdownStarted(flag) == flag

\* gracefulShutdown up to its first await
ShutdownEntry(reason) ==
    /\ shuttingDown' = TRUE
    /\ sdReason' = reason
    /\ IF activeClient /\ inTxn
       THEN /\ sdPc' = "rollback"
            /\ connQueue' = Append(connQueue, [by |-> "shutdown"])
            /\ UNCHANGED poolEnded
       ELSE IF runId
            THEN sdPc' = "finish" /\ UNCHANGED <<connQueue, poolEnded>>
            ELSE sdPc' = "exit" /\ poolEnded' = TRUE /\ UNCHANGED connQueue

\* SIGINT, SIGTERM, uncaughtException or unhandledRejection reaches a process
\* that runs withIngestionRun: the handler calls gracefulShutdown
Fault ==
    /\ proc = "running"
    /\ Wrapped(pipe)
    /\ \E kind \in FaultKinds :
         IF ShutdownStarted(shuttingDown)
         THEN UNCHANGED <<shuttingDown, sdPc, sdReason, connQueue, poolEnded, sigPage>>
         ELSE /\ ShutdownEntry(kind)
              /\ sigPage' = IF kind \in Signals /\ pc = "stmt" /\ inTxn
                            THEN pageNo ELSE sigPage
    /\ faultAfterInsert' = TRUE
    /\ UNCHANGED <<envVars, posVars, dbVars, cursorVars, failVars, procVars, clock,
                   plan, pc, maxUpdatedAtSeen, runId, exitCodeSet, ledger,
                   activeClient, inTxn, failures>>

\* main() rejected under withIngestionRun: Node emits unhandledRejection
UnhandledRejection ==
    /\ MainAt("rejected")
    /\ pc' = "returned"
    /\ IF ShutdownStarted(shuttingDown)
       THEN UNCHANGED <<shuttingDown, sdPc, sdReason, connQueue, poolEnded>>
       ELSE ShutdownEntry("unhandledRejection")
    /\ UNCHANGED <<envVars, posVars, dbVars, cursorVars, failVars, procVars, clock,
                   plan, maxUpdatedAtSeen, runId, exitCodeSet, ledger, activeClient,
                   inTxn, failures, sigPage, faultAfterInsert>>

\* the same events reach a script that installs no handler: the process dies
Kill ==
    /\ proc = "running"
    /\ ~Wrapped(pipe)
    /\ proc' = "exited"
    /\ exitCode' = 1
    /\ faultAfterInsert' = (pc # "get_cursor")
    /\ connQueue' = <<>>
    /\ txn' = "none" /\ txnWrites' = {}
    /\ UNCHANGED <<envVars, posVars, committed, cursorVars, failVars, clock, plan, pc,
                   maxUpdatedAtSeen, runId, exitCodeSet, ledger, activeClient, inTxn,
                   poolEnded, failures, shuttingDown, sdPc, sdReason, sigPage>>

\* gracefulShutdown: activeClient.query("ROLLBACK"), served in its turn
ShutdownRollback ==
    /\ proc = "running"
    /\ sdPc = "rollback"
    /\ connQueue # <<>> /\ Head(connQueue).by = "shutdown"
    /\ connQueue' = Tail(connQueue)
    /\ txn' = "none"
    /\ txnWrites' = {}
    /\ inTxn' = FALSE
    /\ sdPc' = IF runId THEN "finish" ELSE "exit"
    /\ UNCHANGED <<envVars, posVars, committed, cursorVars, failVars, procVars, clock,
                   plan, pc, maxUpdatedAtSeen, runId, exitCodeSet, ledger,
                   activeClient, poolEnded, failures, shuttingDown, sdReason,
                   sigPage, faultAfterInsert>>

\* gracefulShutdown: finishIngestionRun(runId, "failed", ..., {terminated: true});
\* an error of it is caught and logged
ShutdownFinish ==
    /\ proc = "running"
    /\ sdPc = "finish"
    /\ \/ /\ ~poolEnded
          /\ ledger' = finishIngestionRun(ledger, "failed", Patch(TRUE, FALSE))
          /\ UNCHANGED failures
       \/ /\ CanFail \/ poolEnded
          /\ failures' = IF poolEnded THEN failures ELSE failures + 1
          /\ UNCHANGED ledger
    /\ sdPc' = "exit"
    /\ sdReason' = "none"
    /\ UNCHANGED <<envVars, posVars, dbVars, cursorVars, failVars, procVars, clock,
                   plan, pc, connQueue, maxUpdatedAtSeen, runId, exitCodeSet,
                   activeClient, inTxn, poolEnded, shuttingDown,
                   sigPage, faultAfterInsert>>

\* gracefulShutdown: the finally block releases the client, ends the pool and
\* calls process.exit(1); the server drops what the connection left open
ShutdownExit ==
    /\ proc = "running"
    /\ sdPc = "exit"
    /\ sdPc' = "done"
    /\ sdReason' = "none"
    /\ poolEnded' = TRUE
    /\ proc' = "exited"
    /\ exitCode' = 1
    /\ connQueue' = <<>>
    /\ txn' = "none" /\ txnWrites' = {}
    /\ UNCHANGED <<envVars, posVars, committed, cursorVars, failVars, clock, plan, pc,
                   maxUpdatedAtSeen, runId, exitCodeSet, ledger, activeClient, inTxn,
                   failures, shuttingDown, sigPage, faultAfterInsert>>

Next ==
    \/ GetSyncCursor \/ StartIngestionRun \/ Connect \/ FetchPage
    \/ Begin \/ Stmt \/ Commit \/ Rollback
    \/ SetSyncCursor \/ FinishSucceeded \/ ReturnSucceeded \/ FinishFailed
    \/ ProcessExit
    \/ Fault \/ UnhandledRejection \/ Kill
    \/ ShutdownRollback \/ ShutdownFinish \/ ShutdownExit

Spec == Init /\ [][Next]_vars

----------------------------------------------------------------------------
(* Properties of a run *)

LoopPipelines == {LSD, LOD, LSB, LSBW, LOB}
Finalized == {"succeeded", "failed"}

\* C1: watermark safety.  In a daily pipeline, once a page fetch or a write
\* of batch application has failed, the cursor row holds the value it held
\* before the run, in every later state of the run and after it.
C1_WatermarkSafety ==
    (Daily(pipe) /\ loopFailed) => cursor = cursor0

C1_Witness ==
    /\ Daily(pipe) /\ loopFailed /\ failedPage = NumPages
    /\ proc = "exited" /\ ledger.status = "failed"
    /\ AllWrites(1) \subseteq committed

\* C2: no run ends with ledger status failed and an advanced cursor.
C2_FailedRunKeepsCursor ==
    (proc = "exited" /\ ledger.status = "failed") => cursor = cursor0

\* C3: a run's ledger row changes status exactly once: once it is succeeded
\* or failed, no later write changes its status.
C3_StatusChangesOnce ==
    [][ledger.status \in Finalized => ledger'.status = ledger.status]_vars

\* C4: no run is left started.  If a process-level fault occurred once the
\* insert of the started row had been issued, the row the run wrote has
\* status failed and terminated = true when the process has exited.
C4_NoRunLeftStarted ==
    (proc = "exited" /\ faultAfterInsert /\ ledger.status # "none")
        => (ledger.status = "failed" /\ ledger.terminated)

\* C5: in the Loop pipelines, when a write of a fetched page has failed, none
\* of that page's writes is committed and every earlier page of the run is
\* committed, once the process has exited.
C5_FailedPageRolledBack ==
    (proc = "exited" /\ pipe \in LoopPipelines /\ failedPage > 0)
        => /\ committed \cap AllWrites(failedPage) = {}
           /\ \A q \in 1..(failedPage - 1) : AllWrites(q) \subseteq committed

\* C6: when SIGINT or SIGTERM arrived while a run under withIngestionRun was
\* in the middle of applying a page, no write of that page is stored once the
\* process has exited.
C6_SignalledPageNotStored ==
    (proc = "exited" /\ Wrapped(pipe) /\ sigPage > 0)
        => committed \cap AllWrites(sigPage) = {}

\* C7: in the Shopify order syncs, when a write for one order of a fetched
\* page has failed and main() has returned, no order of that page is
\* committed, the ledger row is failed and the cursor is unchanged.
C7_FailedOrderPageRolledBack ==
    (pc = "done" /\ PerOrderTxn(pipe) /\ failedPage > 0)
        => /\ committed \cap AllWrites(failedPage) = {}
           /\ ledger.status = "failed"
           /\ cursor = cursor0

\* C10: the cursor is written at most once in a run, never while a page of
\* the planned window is unfetched or unapplied and never after the ledger
\* row was set to succeeded; a daily run that ends succeeded wrote it once.
C10_CursorWrittenOnceAfterLastCommit ==
    /\ cursorWrites <= 1
    /\ ~cursorEarly
    /\ ~cursorLate
    /\ (pc = "done" /\ Daily(pipe) /\ ledger.status = "succeeded") => cursorWrites = 1

----------------------------------------------------------------------------
(* SpecPlan: the planner over successive runs *)

PlanClocks == {Day(10), Day(10) + 1500}
PlanCursors ==
    {NoCursor,
     CursorRow(Iso(Day(9) + 250), JsNull, JsNull),
     CursorRow(JsNull, Iso(Day(8)), JsNull),
     CursorRow(InvalidIso, JsNull, JsNull),
     CursorRow(JsNull, InvalidIso, JsNull)}
LookbackChoices == {1, DEFAULT_LOOKBACK_DAYS}
OverlapChoices == {0, 24, OVERLAP_HOURS}

PlanInit ==
    /\ pipe \in DailyPipelines
    /\ cursor \in PlanCursors
    /\ clock \in PlanClocks
    /\ lookbackDays \in LookbackChoices
    /\ overlapHours \in OverlapChoices
    /\ plan = NoPlan
    /\ prevEnd = JsNull
    /\ planRuns = 0
    /\ pc = "plan"
    /\ RunIdle

\* main(): read the cursor and compute the window
PlanStep ==
    /\ plan = NoPlan
    /\ planRuns < MaxPlanRuns
    /\ \E tick \in 0..MaxTick :
         /\ plan' = PlanWindow(pipe, cursor, clock, clock + tick,
                               lookbackDays, overlapHours)
         /\ clock' = clock + tick
    /\ planRuns' = planRuns + 1
    /\ UNCHANGED <<pipe, cursor, lookbackDays, overlapHours, prevEnd, runVars>>

\* the run ends succeeded: setSyncCursor stores the new state
PlanRunSucceeds ==
    /\ plan # NoPlan
    /\ ~plan.threw
    /\ \E u \in {JsNull, Iso(clock - MsPerHour), Iso(clock)} :
         LET seen == IF pipe = SOD THEN RaiseMaxUpdatedAt(plan.lastEnd, u) ELSE u
             new == NewCursor(pipe, plan, seen)
         IN  /\ cursor' = new
             /\ prevEnd' = IF pipe = SOD THEN new.last_max_updated_at
                           ELSE new.last_end_iso
    /\ clock' = clock + MsPerDay
    /\ plan' = NoPlan
    /\ UNCHANGED <<pipe, lookbackDays, overlapHours, planRuns, runVars>>

\* the run ends failed (or main() threw while planning): the cursor stays
PlanRunFails ==
    /\ plan # NoPlan
    /\ clock' = clock + MsPerHour
    /\ plan' = NoPlan
    /\ UNCHANGED <<pipe, cursor, lookbackDays, overlapHours, prevEnd, planRuns, runVars>>

PlanNext == PlanStep \/ PlanRunSucceeds \/ PlanRunFails

SpecPlan == PlanInit /\ [][PlanNext]_vars

----------------------------------------------------------------------------
(* Properties of the planner *)

\* a run has planned its window and the pipeline has no cursor row
FirstRunPlanned == plan # NoPlan /\ ~cursor.present

C9_OverlapCoverage ==
    (plan # NoPlan /\ CursorEnd(pipe, cursor).t = "iso") =>
        /\ ~plan.threw
        /\ plan.windowStart.t = "iso"
        /\ plan.windowStart.ms <= CursorEnd(pipe, cursor).ms - overlapHours * MsPerHour
        /\ pipe # SOD => plan.startEpoch.n * 1000 <= plan.windowStart.ms
        /\ prevEnd.t = "iso" => plan.windowStart.ms <= prevEnd.ms

C9_Witness ==
    /\ plan # NoPlan /\ planRuns = 2
    /\ prevEnd.t = "iso" /\ CursorEnd(pipe, cursor) = prevEnd
    /\ overlapHours = OVERLAP_HOURS
    /\ plan.windowStart.ms = prevEnd.ms - 48 * MsPerHour
    /\ plan.startEpoch.t = "num" /\ plan.startEpoch.n * 1000 < plan.windowStart.ms

----------------------------------------------------------------------------
(* SpecClient: requestWithRetry and its throttle, inside a run *)

\* Time is kept by the two differences the client and the properties use:
\* http.elapsed is Date.now() - lastRequestAt, http.idle the time since the
\* last request ended (-1: there was none).

INV == "shopify_inventory_snapshot"

\* one script per client: the Loop client (lib/loop.js), the Shopify orders
\* daily, the Shopify orders backfill, the Shopify inventory snapshot
ClientScripts == {LSD, SOD, SOB, INV}

\* clients that wrap api.request in try / catch
CatchesTransport(p) == p \in {SOD, INV}

DefaultMaxAttempts == 8   \* opts.maxAttempts ?? 8
SmallMaxAttempts == 2     \* a caller's opts.maxAttempts
MaxCalls == 2             \* calls of requestWithRetry on one client instance

MaxAttemptsChoices == {SmallMaxAttempts, DefaultMaxAttempts}
RpsChoices == {500, 1000, 2000, 3000}     \* LOOP_RPS / SHOPIFY_RPS, in 1/1000
Requests == {"GET page 1", "GET page 2"}  \* method, url and params of a call
Statuses == {200, 299, 304, 404, 429, 500, 599}
Bodies == {"body"}
HttpDate == -2       \* a retry-after header that holds an HTTP date, not a number
RetryAfterChoices == {-1, 0, 5, HttpDate} \* retry-after header (-1: absent)
Durations == {100, 600}                   \* ms a request takes
ProcessMs == {0, 50}                      \* ms between two calls

Min(a, b) == IF a < b THEN a ELSE b
Max(a, b) == IF a > b THEN a ELSE b
CeilDiv(a, b) == (a + b - 1) \div b

EffectiveRpsUnclamped(p, r) == r

\* the rate the gap is computed from: the Loop client uses Math.max(1, rps)
EffectiveRps(p, r) == IF p = LSD THEN Max(1000, r) ELSE r

minGapMsNone(p, r) == 0

\* minGapMs = Math.ceil(1000 / RPS)
minGapMs(p, r) == CeilDiv(1000 * 1000, EffectiveRps(p, r))

BackoffUncapped(attempt) == 500 * 2 ^ (attempt - 1)

\* backoff = Math.min(30000, 500 * 2 ** (attempt - 1))
Backoff(attempt) == Min(30000, 500 * 2 ^ (attempt - 1))

RetryAfterWaitFixed(header) == 1000

\* waitMs = Math.max(1000, Number(res.headers["retry-after"] || 1) * 1000),
\* then sleep(waitMs).  Number of a date string is NaN, Math.max(1000, NaN) is
\* NaN, and setTimeout(r, NaN) fires after 1 ms.
RetryAfterWait(header) ==
    IF header = HttpDate
    THEN 1
    ELSE LET retryAfter == IF header = -1 THEN 1 ELSE header
         IN  Max(1000, retryAfter * 1000)

ExhaustedErrorAsHttp(n) == HttpError(0, "none")

\* new Error(`Request failed after ${maxAttempts} attempts`)
ExhaustedError(n) == [kind |-> "exhausted", attempts |-> n]

StatusClassRetryAll(status) ==
    IF status >= 200 /\ status < 300 THEN "2xx" ELSE "5xx"

\* the branch of requestWithRetry a response status takes
StatusClass(status) ==
    IF status >= 200 /\ status < 300 THEN "2xx"
    ELSE IF status = 429 THEN "429"
    ELSE IF status >= 500 /\ status <= 599 THEN "5xx"
    ELSE "4xx"

\* a call of requestWithRetry begins
\* a 429 would not count as an attempt
NextAttemptFree429(attempt, outcome) ==
    IF outcome = "429" THEN attempt ELSE attempt + 1

\* `continue` in for (let attempt = 1; attempt <= maxAttempts; attempt++),
\* whatever the outcome that is retried
NextAttempt(attempt, outcome) == attempt + 1

NewCall(h, maxAttempts, req) ==
    [h EXCEPT !.phase = "throttle", !.maxAttempts = maxAttempts, !.req = req,
              !.calls = h.calls + 1, !.attempt = 1, !.requests = 0,
              !.sent = "none", !.outcome = "none", !.status = 0, !.body = "none",
              !.retryAfter = -1, !.wait = -1, !.prevBackoff = -1,
              !.error = NoError]

\* the run has started its ledger row and is about to fetch its first page
ClientInit ==
    /\ pipe \in ClientScripts
    /\ cursor = NoCursor
    /\ clock = Day(10)
    /\ lookbackDays = DEFAULT_LOOKBACK_DAYS
    /\ overlapHours = OVERLAP_HOURS
    /\ plan = IF Daily(pipe)
              THEN PlanWindow(pipe, cursor, clock, clock, lookbackDays, overlapHours)
              ELSE NoPlan
    /\ prevEnd = JsNull
    /\ planRuns = 0
    /\ lastHasNext = FALSE
    /\ pc = "fetch"
    /\ pageNo = 1 /\ rec = 1 /\ stmt = 1
    /\ maxUpdatedAtSeen = IF pipe = SOD THEN plan.lastEnd ELSE JsNull
    /\ runId = TRUE /\ exitCodeSet = FALSE
    /\ ledger = StartedRow
    /\ committed = {} /\ txn = "none" /\ txnWrites = {}
    /\ connQueue = <<>>
    /\ activeClient = FALSE /\ inTxn = FALSE
    /\ shuttingDown = FALSE /\ sdPc = "idle" /\ sdReason = "none"
    /\ poolEnded = FALSE
    /\ proc = "running" /\ exitCode = 0
    /\ failures = 0
    /\ cursor0 = cursor
    /\ loopFailed = FALSE /\ failedPage = 0 /\ failedRec = 0
    /\ sigPage = 0 /\ faultAfterInsert = FALSE
    /\ cursorWrites = 0 /\ cursorEarly = FALSE /\ cursorLate = FALSE
    /\ store = NoStore
    /\ dimSku = NoDimSku
    /\ \E m \in MaxAttemptsChoices, r \in RpsChoices, q \in Requests :
         http = NewCall([NoCall EXCEPT !.rps = r, !.elapsed = clock], m, q)

clientRunVars ==
    <<store, dimSku, planVars, lastHasNext, pageNo, rec, stmt, maxUpdatedAtSeen, runId, exitCodeSet,
      ledger, committed, txn, txnWrites, connQueue, activeClient, inTxn, shuttingDown,
      sdPc, sdReason, poolEnded, proc, exitCode, failures, cursor0, failedPage,
      failedRec, sigPage, faultAfterInsert, cursorWrites, cursorEarly, cursorLate>>

\* top of the attempt loop: the throttle sleep, lastRequestAt = Date.now() and
\* api.request(...)
ClientThrottle ==
    /\ proc = "running" /\ pc = "fetch"
    /\ http.phase = "throttle"
    /\ LET gap == minGapMs(pipe, http.rps)
           slept == IF http.elapsed < gap THEN gap - http.elapsed ELSE 0
       IN  http' = [http EXCEPT
                       !.phase = "request",
                       !.gapStart = IF http.idle = -1 THEN -1 ELSE http.elapsed + slept,
                       !.gapEnd = IF http.idle = -1 THEN -1 ELSE http.idle + slept,
                       !.elapsed = 0,
                       !.sent = http.req,
                       !.requests = http.requests + 1]
    /\ UNCHANGED <<clientRunVars, pc, loopFailed>>

\* the request ends: a response, or a transport failure (status 0)
ClientResponse ==
    /\ proc = "running" /\ pc = "fetch"
    /\ http.phase = "request"
    /\ \E d \in Durations, st \in Statuses \cup {0}, b \in Bodies,
          ra \in RetryAfterChoices :
         LET cls == IF st = 0 THEN "transport" ELSE StatusClass(st)
             h == [http EXCEPT !.elapsed = d, !.idle = 0, !.outcome = cls,
                               !.status = st,
                               !.body = IF st = 0 THEN "none" ELSE b,
                               !.retryAfter = IF cls = "429" THEN ra ELSE -1,
                               !.prevBackoff = IF http.outcome = "5xx" /\ cls = "5xx"
                                               THEN http.wait ELSE -1]
         IN  /\ cls # "429" => ra = -1
             /\ http' =
                  CASE cls = "2xx" -> [h EXCEPT !.phase = "returned", !.wait = -1]
                    [] cls = "429" ->
                         [h EXCEPT !.phase = "sleep", !.wait = RetryAfterWait(ra)]
                    [] cls = "5xx" ->
                         [h EXCEPT !.phase = "sleep", !.wait = Backoff(http.attempt)]
                    [] cls = "4xx" ->
                         [h EXCEPT !.phase = "threw", !.wait = -1,
                                   !.error = HttpError(st, b)]
                    [] cls = "transport" ->
                         IF CatchesTransport(pipe) /\ http.attempt # http.maxAttempts
                         THEN [h EXCEPT !.phase = "sleep",
                                        !.wait = Backoff(http.attempt)]
                         ELSE [h EXCEPT !.phase = "threw", !.wait = -1,
                                        !.error = TransportError]
    /\ UNCHANGED <<clientRunVars, pc, loopFailed>>

\* sleep(waitMs) / sleep(backoff), then `continue`; past the last attempt the
\* loop ends and the terminal error is thrown
ClientSleep ==
    /\ proc = "running" /\ pc = "fetch"
    /\ http.phase = "sleep"
    /\ LET next == NextAttempt(http.attempt, http.outcome)
       IN  http' = [http EXCEPT
                      !.elapsed = http.elapsed + http.wait,
                      !.idle = http.idle + http.wait,
                      !.attempt = next,
                      !.phase = IF next > http.maxAttempts
                                THEN "threw" ELSE "throttle",
                      !.error = IF next > http.maxAttempts
                                THEN ExhaustedError(http.maxAttempts) ELSE NoError]
    /\ UNCHANGED <<clientRunVars, pc, loopFailed>>

\* the call returned its response; the script works on it and calls again
ClientNextCall ==
    /\ proc = "running" /\ pc = "fetch"
    /\ http.phase = "returned"
    /\ http.calls < MaxCalls
    /\ \E p \in ProcessMs, q \in Requests :
         http' = NewCall([http EXCEPT !.elapsed = http.elapsed + p,
                                      !.idle = http.idle + p],
                         http.maxAttempts, q)
    /\ UNCHANGED <<clientRunVars, pc, loopFailed>>

\* the call threw: the error reaches the catch block of the run
ClientThrows ==
    /\ proc = "running" /\ pc = "fetch"
    /\ http.phase = "threw"
    /\ loopFailed' = TRUE
    /\ pc' = "finish_failed"
    /\ UNCHANGED <<clientRunVars, http>>

ClientNext ==
    \/ ClientThrottle \/ ClientResponse \/ ClientSleep \/ ClientNextCall
    \/ ClientThrows \/ FinishFailed \/ ProcessExit

SpecClient == ClientInit /\ [][ClientNext]_vars

----------------------------------------------------------------------------
(* Properties of the HTTP client, checked under SpecClient *)

Retryable == {"429", "5xx", "transport"}

\* C12 (as stated): in every client a transport failure on an attempt below
\* the attempt budget is followed by a wait of min(30000, 500 * 2^(attempt-1))
\* ms and a retry, never by the failure of the call.
C12_TransportFailureRetried ==
    (/\ http.outcome = "transport"
     /\ http.phase \in {"sleep", "threw"}
     /\ http.attempt < http.maxAttempts)
    => (http.phase = "sleep" /\ http.wait = Min(30000, 500 * 2 ^ (http.attempt - 1)))

\* C13: backoff bound.  The wait after a 5xx response on attempt n is
\* min(30000, 500 * 2^(n-1)) ms; it never exceeds 30000 ms and is never
\* shorter than the wait after the 5xx response of the attempt before.
C13_BackoffBound ==
    (http.phase = "sleep" /\ http.outcome = "5xx")
    => /\ http.wait = Min(30000, 500 * 2 ^ (http.attempt - 1))
       /\ http.wait <= 30000
       /\ http.prevBackoff >= 0 => http.prevBackoff <= http.wait

C13_Witness ==
    /\ http.phase = "sleep" /\ http.outcome = "5xx"
    /\ http.attempt = 7 /\ http.attempt < http.maxAttempts
    /\ http.prevBackoff = 16000 /\ http.wait = 30000

\* C14 (as stated): after a 429 response with Retry-After: s the client waits
\* at least s * 1000 ms and then re-issues the same request.
C14_RetryAfterHonoured ==
    http.outcome = "429"
    => /\ http.retryAfter >= 0 => http.wait >= http.retryAfter * 1000
       /\ http.phase # "threw"

\* C14 (amended): after a 429 response with Retry-After: s the wait is at
\* least s * 1000 ms (and at least 1000 ms, also without the header); when the response came on an
\* attempt below the attempt budget the same request is then re-issued, no
\* sooner than that wait after the response; on the last attempt the call
\* ends with the terminal error instead.
C14_RetryAfterHonouredWithinBudget ==
    http.outcome = "429"
    => /\ http.retryAfter # HttpDate => http.wait >= 1000
       /\ http.retryAfter >= 0 => http.wait >= http.retryAfter * 1000
       /\ http.phase \in {"sleep", "throttle", "request", "threw"}
       /\ http.phase = "throttle" => http.idle >= http.wait
       /\ http.phase = "request" => (http.sent = http.req /\ http.gapEnd >= http.wait)
       /\ http.phase = "threw" <=> http.attempt > http.maxAttempts
       /\ http.phase = "threw" => http.error.kind = "exhausted"

C14_Witness ==
    /\ http.outcome = "429" /\ http.retryAfter = 5
    /\ http.phase = "request" /\ http.requests >= 2
    /\ http.sent = http.req /\ http.gapEnd >= 5000

\* C15: a response that is non-2xx and neither 429 nor 5xx ends the call at
\* once with an error that carries the status and the body; no further
\* request is made for the call, and once the catch block of the run has
\* written the ledger the row is failed and the exit code is 1.
C15_PermanentErrorFailsAtOnce ==
    (/\ http.status # 0
     /\ ~(http.status >= 200 /\ http.status < 300)
     /\ http.status # 429
     /\ ~(http.status >= 500 /\ http.status <= 599))
    => /\ http.phase = "threw"
       /\ http.error = HttpError(http.status, http.body)
       /\ http.requests = http.attempt
       /\ pc \in {"fetch", "finish_failed", "pool_end", "done", "crashed"}
       /\ pc \in {"pool_end", "done"} => (ledger.status = "failed" /\ exitCodeSet)
       /\ pc = "done" => exitCode = 1

C15_Witness ==
    /\ http.outcome = "4xx" /\ http.status = 404
    /\ http.attempt = 1 /\ http.requests = 1 /\ http.maxAttempts = DefaultMaxAttempts
    /\ pc = "done" /\ ledger.status = "failed"

\* C16 (as stated): when every one of the maxAttempts attempts ended in a
\* retryable outcome, the call raises the 'failed after N attempts' error.
C16_ExhaustionRaisesFailedAfter ==
    (/\ http.phase = "threw"
     /\ http.requests = http.maxAttempts
     /\ http.outcome \in Retryable)
    => http.error.kind = "exhausted"

\* C16 (amended): when every one of the maxAttempts attempts ended in a
\* retryable outcome, the call raises 'failed after N attempts' if the last
\* attempt ended in 429 or 5xx and the transport error itself if the last
\* attempt was a transport failure; either error differs from the error of
\* a permanent 4xx response.
C16_ExhaustionRaisesTerminalError ==
    (/\ http.phase = "threw"
     /\ http.requests = http.maxAttempts
     /\ http.outcome \in Retryable)
    => /\ http.error = IF http.outcome = "transport"
                       THEN TransportError
                       ELSE ExhaustedError(http.maxAttempts)
       /\ http.error.kind # "http"

C16_Witness ==
    /\ http.phase = "threw" /\ http.maxAttempts = DefaultMaxAttempts
    /\ http.requests = DefaultMaxAttempts
    /\ http.outcome = "429"
    /\ http.error = [kind |-> "exhausted", attempts |-> DefaultMaxAttempts]

\* C17 (as stated): between the end of a request and the start of the next
\* one on the same client at least 1000 / RPS ms pass.
C17_GapFromEndOfRequest ==
    http.gapEnd >= 0 => http.gapEnd * http.rps >= 1000 * 1000

\* C17 (amended): between the start of a request and the start of the next
\* one on the same client at least 1000 / RPS ms pass, the Loop client
\* taking an RPS below 1 for 1.
C17_GapFromStartOfRequest ==
    http.gapStart >= 0
    => http.gapStart * (IF pipe = LSD /\ http.rps < 1000 THEN 1000 ELSE http.rps)
         >= 1000 * 1000

C17_Witness ==
    /\ http.phase = "request" /\ http.calls = MaxCalls
    /\ http.rps = 3000 /\ http.gapStart = 334 /\ http.gapEnd < 334

----------------------------------------------------------------------------
(* The page loop, checked under Spec *)

\* main() has left the page loop by one of its two `break`s
PastLoop == {"set_cursor", "finish_succeeded", "finish_succeeded_ack"}

\* C18: the page loop ends at the first page that is empty or carries no
\* next-page signal: pages 1..pageNo are the pages requested, every page
\* before the last one was non-empty and signalled a next page, and every
\* non-empty page requested is stored; the statement after the loop is the
\* cursor write (daily pipelines), then the ledger update to succeeded, and a
\* run in which no operation fails and no signal arrives ends succeeded with
\* the cursor written once.
C18_PageLoopEnds ==
    /\ pc \in PastLoop
       => /\ PageSize(pageNo) = 0 \/ ~(pageNo < NumPages \/ lastHasNext)
          /\ \A pn \in 1..(pageNo - 1) :
               PageSize(pn) > 0 /\ (pn < NumPages \/ lastHasNext)
          /\ ~shuttingDown
             => \A pn \in 1..pageNo :
                  PageSize(pn) > 0 => AllWrites(pn) \subseteq committed
    /\ (pc \in {"finish_succeeded", "finish_succeeded_ack"} /\ Daily(pipe))
       => (cursorWrites = 1 /\ cursor = NewCursor(pipe, plan, maxUpdatedAtSeen))
    /\ (pc = "finish_succeeded_ack" /\ ~shuttingDown) => ledger.status = "succeeded"
    /\ (pc = "done" /\ AllPagesApplied /\ ~loopFailed /\ failures = 0 /\ ~shuttingDown)
       => /\ ledger.status = "succeeded"
          /\ Daily(pipe) => cursorWrites = 1

\* the page after the last non-empty one is empty: the loop ended there, the run wrote the cursor and ended
\* succeeded
C18_Witness ==
    /\ pipe \in {LSD, SOD}
    /\ lastHasNext /\ pageNo = NumPages + 1 /\ PageSize(pageNo) = 0
    /\ AllPagesApplied
    /\ pc = "done" /\ ledger.status = "succeeded" /\ cursorWrites = 1

----------------------------------------------------------------------------
(* SpecApply: one fetched batch applied to the tables, then applied again *)

MaxRefundLines == 1   \* refund line items of the refund in the batch

ApplyScripts == {SOD, SOB, LSD}

NoId == 0             \* a refund line item that carries no line_item_id
NoSku == ""           \* a line without SKU
Blank == " "          \* a SKU of white space only

\* (li.sku || "").trim(), left out
TrimOmitted(sku) == sku

\* (li.sku || "").trim()
Trim(sku) == IF sku = Blank THEN NoSku ELSE sku

\* records of a fetched batch, in the order the script writes them
OrderRec == [shape |-> "order", k1 |-> 1, k2 |-> 0, sku |-> NoSku]
LineItemRec(sku) == [shape |-> "line_item", k1 |-> 1, k2 |-> 11, sku |-> sku]
OtherLineItemRec == [shape |-> "line_item", k1 |-> 1, k2 |-> 12, sku |-> "B"]
RefundRec == [shape |-> "refund", k1 |-> 5, k2 |-> 0, sku |-> NoSku]
RefundLineRec(lineItemId, sku) ==
    [shape |-> "refund_line_item", k1 |-> 5, k2 |-> lineItemId, sku |-> sku]
SubscriptionRec == [shape |-> "subscription", k1 |-> 1, k2 |-> 0, sku |-> NoSku]
SubscriptionLineRec(sku) ==
    [shape |-> "subscription_line", k1 |-> 1, k2 |-> 11, sku |-> sku]

SkuChoices == {NoSku, "A"}
RefundLineChoices ==
    {RefundLineRec(id, sku) : id \in {NoId, 11}, sku \in {NoSku, "A", "B"}}
RefundLineSeqs == UNION {[1..n -> RefundLineChoices] : n \in 0..MaxRefundLines}

Batches(p) ==
    IF p = LSD
    THEN {<<SubscriptionRec, SubscriptionLineRec(sku)>> : sku \in SkuChoices}
    ELSE {<<OrderRec, LineItemRec(sku), OtherLineItemRec, RefundRec>> \o rls :
            sku \in SkuChoices \cup {Blank}, rls \in RefundLineSeqs}

\* a stored row; `at` is ingested_at / created_at, `serial` a bigserial id
Row(tbl, k1, k2, sku, val, at, serial) ==
    [tbl |-> tbl, k1 |-> k1, k2 |-> k2, sku |-> sku, val |-> val, at |-> at,
     serial |-> serial]

\* ops.dim_sku before the batch: empty, or SKU "A" written by the product sync
DimSkuBefore == {{}, {Row("dim_sku", 0, 0, "A", "product", 0, 0)}}

Matching(rows, tbl, k1, k2, sku) ==
    {r \in rows : r.tbl = tbl /\ r.k1 = k1 /\ r.k2 = k2 /\ r.sku = sku}

\* the column values a record carries (records of one shape and key that
\* differ in their values carry a val field)
RecVal(r) == IF "val" \in DOMAIN r THEN r.val ELSE "row"

\* insert ... on conflict (<key>) do nothing: the stored row is kept
UpsertDoNothing(rows, tbl, k1, k2, sku, val, at) ==
    IF \E r \in rows : r.tbl = tbl /\ r.k1 = k1 /\ r.k2 = k2
    THEN rows
    ELSE rows \cup {Row(tbl, k1, k2, sku, val, at, 0)}

\* insert ... on conflict (<key>) do update set <every column> = excluded.<column>,
\* ingested_at = now()
Upsert(rows, tbl, k1, k2, sku, val, at) ==
    LET old == {r \in rows : r.tbl = tbl /\ r.k1 = k1 /\ r.k2 = k2}
    IN  (rows \ old) \cup {Row(tbl, k1, k2, sku, val, at, 0)}

\* upsertOrderLine of the Loop orders scripts: on conflict (loop_order_id,
\* coalesce(variant_shopify_id, 0), coalesce(sku, ''), is_one_time) do update;
\* k2 is the variant id, 0 when the line carries none
upsertOrderLine(rows, k1, k2, sku, val, at) ==
    LET old == {r \in rows : r.tbl = "loop_order_line" /\ r.k1 = k1 /\ r.k2 = k2
                               /\ r.sku = sku}
    IN  (rows \ old) \cup {Row("loop_order_line", k1, k2, sku, val, at, 0)}

\* ensureSkuExists / ensureSkuExistsBestEffort: select, then
\* insert ... on conflict (sku) do nothing
ensureSkuExists(rows, p, sku, at) ==
    IF sku = NoSku \/ Matching(rows, "dim_sku", 0, 0, sku) # {}
    THEN rows
    ELSE rows \cup {Row("dim_sku", 0, 0, sku, "stub", at, 0)}

\* the refund line item statement of upsertRefunds: the result is the table
\* and whether the statement succeeded
RefundLineItem(rows, p, r, at, serial) ==
    LET dup == {x \in rows : x.tbl = "refund_line_item" /\ x.k1 = r.k1 /\ x.k2 = r.k2}
        new == Row("refund_line_item", r.k1, r.k2, r.sku, "row", at, serial)
    IN  IF r.k2 = NoId
        THEN \* plain insert, no unique index covers the row
             [rows |-> rows \cup {new}, ok |-> TRUE]
        ELSE IF p = SOD
        THEN \* on conflict (refund_id, line_item_id) do update
             [rows |-> (rows \ dup) \cup
                       {IF dup = {} THEN new
                        ELSE [new EXCEPT !.serial = (CHOOSE x \in dup : TRUE).serial]},
              ok |-> TRUE]
        ELSE \* backfill: plain insert against refund_line_items_uniq
             IF dup = {} THEN [rows |-> rows \cup {new}, ok |-> TRUE]
             ELSE [rows |-> rows, ok |-> FALSE]

\* the statements one record of the batch causes
ApplyRecord(rows, p, r, at, serial) ==
    CASE r.shape \in {"order", "refund", "subscription"} ->
           [rows |-> Upsert(rows, r.shape, r.k1, r.k2, NoSku, RecVal(r), at),
            ok |-> TRUE]
      [] r.shape = "line_item" ->
           IF Trim(r.sku) = NoSku
           THEN [rows |-> rows, ok |-> TRUE]      \* skippedNoSku
           ELSE [rows |-> Upsert(ensureSkuExists(rows, p, Trim(r.sku), at),
                                 r.shape, r.k1, r.k2, Trim(r.sku), RecVal(r), at),
                 ok |-> TRUE]
      [] r.shape = "subscription_line" ->
           IF r.k2 = NoId
           THEN \* line_id is declared not null: the insert fails
                [rows |-> ensureSkuExists(rows, p, r.sku, at), ok |-> FALSE]
           ELSE [rows |-> Upsert(ensureSkuExists(rows, p, r.sku, at),
                                 r.shape, r.k1, r.k2, r.sku, RecVal(r), at),
                 ok |-> TRUE]
      [] r.shape = "loop_order_line" ->
           [rows |-> upsertOrderLine(ensureSkuExists(rows, p, r.sku, at),
                                     r.k1, r.k2, r.sku, RecVal(r), at),
            ok |-> TRUE]
      [] r.shape = "refund_line_item" ->
           RefundLineItem(ensureSkuExists(rows, p, r.sku, at), p, r, at, serial)

\* upsertLineItem answers skippedNoSku
SkippedNoSku(r) == r.shape = "line_item" /\ Trim(r.sku) = NoSku

\* the stored rows without ingested_at and without the generated ids
Strip(rows) ==
    {[tbl |-> r.tbl, k1 |-> r.k1, k2 |-> r.k2, sku |-> r.sku, val |-> r.val] :
       r \in rows}

SameStorage(a, b) == Strip(a) = Strip(b) /\ Cardinality(a) = Cardinality(b)

ApplyInit ==
    /\ pipe \in ApplyScripts
    /\ cursor = NoCursor
    /\ clock = Day(10)
    /\ lookbackDays = DEFAULT_LOOKBACK_DAYS
    /\ overlapHours = OVERLAP_HOURS
    /\ plan = NoPlan
    /\ prevEnd = JsNull
    /\ planRuns = 0
    /\ lastHasNext = FALSE
    /\ pc = "stmt"
    /\ pageNo = 1 /\ rec = 1 /\ stmt = 1
    /\ maxUpdatedAtSeen = JsNull
    /\ runId = TRUE /\ exitCodeSet = FALSE
    /\ ledger = StartedRow
    /\ committed = {} /\ txn = "none" /\ txnWrites = {}
    /\ connQueue = <<>>
    /\ activeClient = FALSE /\ inTxn = FALSE
    /\ shuttingDown = FALSE /\ sdPc = "idle" /\ sdReason = "none"
    /\ poolEnded = FALSE
    /\ proc = "running" /\ exitCode = 0
    /\ failures = 0
    /\ http = NoCall
    /\ dimSku = NoDimSku
    /\ cursor0 = cursor
    /\ loopFailed = FALSE /\ failedPage = 0 /\ failedRec = 0
    /\ sigPage = 0 /\ faultAfterInsert = FALSE
    /\ cursorWrites = 0 /\ cursorEarly = FALSE /\ cursorLate = FALSE
    /\ \E b \in Batches(pipe), d \in DimSkuBefore :
         store = [phase |-> "apply", batch |-> b, pass |-> 1, pos |-> 1,
                  rows |-> d, txn0 |-> d, once |-> {}, serial |-> 1,
                  lineItemsSkippedNoSku |-> 0]

applyFrame ==
    <<planVars, lastHasNext, pc, pageNo, rec, stmt, maxUpdatedAtSeen, runId,
      exitCodeSet, ledger, committed, txn, txnWrites, connQueue, activeClient, inTxn,
      shuttingDown, sdPc, sdReason, poolEnded, proc, exitCode, failures, http, dimSku,
      cursor0, loopFailed, failedPage, failedRec, sigPage, faultAfterInsert,
      cursorWrites, cursorEarly, cursorLate>>

\* the statements of the next record of the batch, inside the transaction
ApplyStatement ==
    /\ store.phase = "apply"
    /\ store.pos <= Len(store.batch)
    /\ LET out == ApplyRecord(store.rows, pipe, store.batch[store.pos], store.pass,
                              store.serial)
       IN  store' = IF out.ok
                    THEN [store EXCEPT !.rows = out.rows, !.pos = store.pos + 1,
                                       !.serial = store.serial + 1,
                                       !.lineItemsSkippedNoSku =
                                           IF SkippedNoSku(store.batch[store.pos])
                                           THEN @ + 1 ELSE @]
                    ELSE [store EXCEPT !.phase = "rollback",
                                       !.serial = store.serial + 1]
    /\ UNCHANGED applyFrame

\* COMMIT after the last record; the batch is then applied once more
ApplyCommit ==
    /\ store.phase = "apply"
    /\ store.pos > Len(store.batch)
    /\ store' = IF store.pass = 1
                THEN [store EXCEPT !.pass = 2, !.pos = 1, !.once = store.rows,
                                   !.txn0 = store.rows,
                                   !.lineItemsSkippedNoSku = 0]
                ELSE [store EXCEPT !.phase = "done"]
    /\ UNCHANGED applyFrame

\* a statement failed: ROLLBACK, the run fails
ApplyRollback ==
    /\ store.phase = "rollback"
    /\ store' = [store EXCEPT !.phase = "failed", !.rows = store.txn0]
    /\ UNCHANGED applyFrame

ApplyNext == ApplyStatement \/ ApplyCommit \/ ApplyRollback

SpecApply == ApplyInit /\ [][ApplyNext]_vars

(* Idempotence *)

\* C19 (as stated): once the batch has been applied a second time the stored
\* rows, without ingested_at, are the rows stored by the first application,
\* for every record shape.
C19_ApplyTwiceEqualsOnce ==
    (store.phase \in {"done", "failed"} /\ store.pass = 2)
    => SameStorage(store.rows, store.once)

----------------------------------------------------------------------------
(* SpecStub: concurrent stub creation for one SKU of ops.dim_sku *)

\* Two pipelines run at the same time, each in a transaction on its own
\* connection (READ COMMITTED): a select sees the committed row and the
\* connection's own insert; an insert of a key another transaction has
\* inserted and not yet committed waits for that transaction.

MaxStubCalls == 2      \* calls of ensureSkuExists for the SKU in one transaction
MaxProductSyncs == 1   \* runs of the product sync while the pipelines run

Creators == {SOD, LSD}

NoSkuRow == [present |-> FALSE]

\* the row a stub insert writes: attributes.stub, attributes.created_by, and
\* the titles the pipeline saw on its line
StubRow(p) ==
    [present |-> TRUE, stub |-> TRUE, created_by |-> p, product_title |-> p]

\* the row the product sync writes (upsertSku, on conflict do update)
ProductRow ==
    [present |-> TRUE, stub |-> FALSE, created_by |-> "shopify_sync_product",
     product_title |-> "catalog"]

InsertOnConflictDoUpdate(row, new) == new

\* insert into ops.dim_sku ... on conflict (sku) do nothing
InsertOnConflictDoNothing(row, new) == IF row.present THEN row ELSE new

\* the product sync would keep a row that exists
upsertSkuKeepsRow(row, new) == IF row.present THEN row ELSE new

\* upsertSku: insert ... on conflict (sku) do update set every column,
\* attributes = excluded.attributes
upsertSku(row, new) == new

NoConn == [pos |-> "check", calls |-> 1, pending |-> NoSkuRow, noop |-> FALSE]

StubInit ==
    /\ pipe \in Creators
    /\ cursor = NoCursor
    /\ clock = Day(10)
    /\ lookbackDays = DEFAULT_LOOKBACK_DAYS
    /\ overlapHours = OVERLAP_HOURS
    /\ plan = NoPlan
    /\ prevEnd = JsNull
    /\ planRuns = 0
    /\ lastHasNext = FALSE
    /\ pc = "stmt"
    /\ pageNo = 1 /\ rec = 1 /\ stmt = 1
    /\ maxUpdatedAtSeen = JsNull
    /\ runId = TRUE /\ exitCodeSet = FALSE
    /\ ledger = StartedRow
    /\ committed = {} /\ txn = "none" /\ txnWrites = {}
    /\ connQueue = <<>>
    /\ activeClient = FALSE /\ inTxn = FALSE
    /\ shuttingDown = FALSE /\ sdPc = "idle" /\ sdReason = "none"
    /\ poolEnded = FALSE
    /\ proc = "running" /\ exitCode = 0
    /\ failures = 0
    /\ http = NoCall
    /\ store = NoStore
    /\ cursor0 = cursor
    /\ loopFailed = FALSE /\ failedPage = 0 /\ failedRec = 0
    /\ sigPage = 0 /\ faultAfterInsert = FALSE
    /\ cursorWrites = 0 /\ cursorEarly = FALSE /\ cursorLate = FALSE
    /\ \E r \in {NoSkuRow, ProductRow, StubRow(LSB)} :
         dimSku = [phase |-> "run", row |-> r, conn |-> [c \in Creators |-> NoConn],
                   syncs |-> 0, by |-> "none", before |-> r,
                   productPc |-> "idle", productRequests |-> 0,
                   productLedger |-> "none"]

stubFrame ==
    <<planVars, lastHasNext, pc, pageNo, rec, stmt, maxUpdatedAtSeen, runId,
      exitCodeSet, ledger, committed, txn, txnWrites, connQueue, activeClient, inTxn,
      shuttingDown, sdPc, sdReason, poolEnded, proc, exitCode, failures, http, store,
      cursor0, loopFailed, failedPage, failedRec, sigPage, faultAfterInsert,
      cursorWrites, cursorEarly, cursorLate>>

\* an insert of the SKU is pending in another transaction
PendingElsewhere(c) ==
    \E d \in Creators \ {c} : dimSku.conn[d].pending.present

\* select 1 from ops.dim_sku where sku = $1; `if (check.rowCount) return false`
StubCheck(c) ==
    /\ dimSku.phase = "run"
    /\ dimSku.conn[c].pos = "check"
    /\ dimSku' = [dimSku EXCEPT
                     !.conn[c].pos = IF dimSku.row.present
                                        \/ dimSku.conn[c].pending.present
                                     THEN "called" ELSE "insert",
                     !.by = c]
    /\ UNCHANGED stubFrame

\* the insert of the stub
StubInsert(c) ==
    /\ dimSku.phase = "run"
    /\ dimSku.conn[c].pos = "insert"
    /\ ~PendingElsewhere(c)
    /\ LET res == InsertOnConflictDoNothing(dimSku.row, StubRow(c))
       IN  dimSku' = [dimSku EXCEPT
                         !.conn[c].pos = "called",
                         !.conn[c].pending = IF res = dimSku.row THEN NoSkuRow ELSE res,
                         !.conn[c].noop = dimSku.row.present,
                         !.by = c]
    /\ UNCHANGED stubFrame

\* a later line of the batch carries the same SKU
StubNextCall(c) ==
    /\ dimSku.phase = "run"
    /\ dimSku.conn[c].pos = "called"
    /\ dimSku.conn[c].calls < MaxStubCalls
    /\ dimSku' = [dimSku EXCEPT !.conn[c].pos = "check",
                                !.conn[c].calls = dimSku.conn[c].calls + 1,
                                !.by = c]
    /\ UNCHANGED stubFrame

\* COMMIT of the transaction
StubCommit(c) ==
    /\ dimSku.phase = "run"
    /\ dimSku.conn[c].pos = "called"
    /\ dimSku' = [dimSku EXCEPT
                     !.row = IF dimSku.conn[c].pending.present
                             THEN dimSku.conn[c].pending ELSE dimSku.row,
                     !.conn[c].pending = NoSkuRow,
                     !.conn[c].pos = "done",
                     !.by = c]
    /\ UNCHANGED stubFrame

\* another statement of the transaction failed: ROLLBACK
StubRollback(c) ==
    /\ dimSku.phase = "run"
    /\ dimSku.conn[c].pos \in {"insert", "called"}
    /\ dimSku' = [dimSku EXCEPT !.conn[c].pending = NoSkuRow,
                                !.conn[c].pos = "done",
                                !.by = c]
    /\ UNCHANGED stubFrame

\* the product sync starts: main calls fetchAllProducts at once, which issues
\* api.get("/products.json"); the script holds no statement on
\* ops.ingestion_runs, so its ledger row stays absent
fetchAllProducts ==
    /\ dimSku.phase = "run"
    /\ dimSku.productPc = "idle"
    /\ dimSku.syncs < MaxProductSyncs
    /\ dimSku' = [dimSku EXCEPT !.productPc = "fetched",
                                !.productRequests = dimSku.productRequests + 1,
                                !.by = "shopify_sync_product"]
    /\ UNCHANGED stubFrame

\* the product sync upserts the SKU (pool.query, autocommit)
ProductSync ==
    /\ dimSku.phase = "run"
    /\ dimSku.productPc = "fetched"
    /\ \A c \in Creators : ~dimSku.conn[c].pending.present
    /\ dimSku' = [dimSku EXCEPT !.row = upsertSku(dimSku.row, ProductRow),
                                !.syncs = dimSku.syncs + 1,
                                !.productPc = "idle",
                                !.by = "shopify_sync_product"]
    /\ UNCHANGED stubFrame

StubNext ==
    \/ \E c \in Creators :
         StubCheck(c) \/ StubInsert(c) \/ StubNextCall(c) \/ StubCommit(c)
           \/ StubRollback(c)
    \/ fetchAllProducts
    \/ ProductSync

SpecStub == StubInit /\ [][StubNext]_vars

(* Stub non-clobber *)

\* C20: stub non-clobber.  Once a row exists for the SKU (stub or non-stub),
\* no step of a stub creation (existence check, insert, commit or rollback of
\* its transaction) by any pipeline changes any column of the row, whatever
\* the interleaving of the pipelines' checks and inserts.
C20_StubNonClobber ==
    [][(dimSku.row.present /\ dimSku'.by \in Creators) => dimSku'.row = dimSku.row]_vars

\* both pipelines found no row, one stored its stub, the insert of the other
\* then met the stored row
C20_Witness ==
    \E c \in Creators :
      /\ dimSku.conn[c].noop
      /\ dimSku.conn[c].calls = 1
      /\ dimSku.row.present /\ dimSku.row.stub /\ dimSku.row.created_by \in Creators \ {c}

----------------------------------------------------------------------------
(* Further properties of a run, checked under Spec *)

\* C21 (as stated): on every failed path the steps come in this order: the
\* open transaction is rolled back, then the ledger row is set failed, then
\* the connection and the pool are released, then the process ends with a
\* non-zero status.  As steps: the row is set failed only with no transaction
\* open, and a process that ends on a failed path ends with a non-zero status,
\* its row failed, no transaction open and the pool ended.
C21_FailedPathOrder ==
    [][/\ (ledger.status # "failed" /\ ledger'.status = "failed") => txn = "none"
       /\ (/\ proc = "running" /\ proc' = "exited"
           /\ runId
           /\ loopFailed \/ shuttingDown \/ exitCode' # 0)
          => /\ exitCode' # 0
             /\ ledger.status = "failed"
             /\ txn = "none"
             /\ poolEnded]_vars

----------------------------------------------------------------------------
(* SpecLedger: the metadata column of one ops.ingestion_runs row *)

MaxFinishes == 2      \* finishIngestionRun calls on one run

StartKeys == {"started_at", "page_size"}
PatchKeys == {"finished_at", "terminated", "page_size"}
MetaValues == {"a", "b"}

\* JSON objects over a set of keys
Objects(keys) == UNION {[K -> MetaValues] : K \in SUBSET keys}
EmptyObject == [k \in {} |-> "a"]

JsonbReplace(a, b) == b

\* metadata || $6::jsonb
JsonbConcat(a, b) ==
    [k \in DOMAIN a \cup DOMAIN b |-> IF k \in DOMAIN b THEN b[k] ELSE a[k]]

\* every variable but pipe, ledger, http, store and dimSku, at rest
ParkedRun ==
    /\ cursor = NoCursor
    /\ clock = Day(10)
    /\ lookbackDays = DEFAULT_LOOKBACK_DAYS
    /\ overlapHours = OVERLAP_HOURS
    /\ plan = NoPlan
    /\ prevEnd = JsNull
    /\ planRuns = 0
    /\ lastHasNext = FALSE
    /\ pc = "stmt"
    /\ pageNo = 1 /\ rec = 1 /\ stmt = 1
    /\ maxUpdatedAtSeen = JsNull
    /\ runId = TRUE /\ exitCodeSet = FALSE
    /\ committed = {} /\ txn = "none" /\ txnWrites = {}
    /\ connQueue = <<>>
    /\ activeClient = FALSE /\ inTxn = FALSE
    /\ shuttingDown = FALSE /\ sdPc = "idle" /\ sdReason = "none"
    /\ poolEnded = FALSE
    /\ proc = "running" /\ exitCode = 0
    /\ failures = 0
    /\ cursor0 = cursor
    /\ loopFailed = FALSE /\ failedPage = 0 /\ failedRec = 0
    /\ sigPage = 0 /\ faultAfterInsert = FALSE
    /\ cursorWrites = 0 /\ cursorEarly = FALSE /\ cursorLate = FALSE

parkedFrame ==
    <<cursor, clock, lookbackDays, overlapHours, plan, prevEnd, planRuns, lastHasNext,
      pc, pageNo, rec, stmt, maxUpdatedAtSeen, runId, exitCodeSet, committed, txn,
      txnWrites, connQueue, activeClient, inTxn, shuttingDown, sdPc, sdReason,
      poolEnded, proc, exitCode, failures, cursor0, loopFailed, failedPage, failedRec,
      sigPage, faultAfterInsert, cursorWrites, cursorEarly, cursorLate>>

\* startIngestionRun(metadata): the row is inserted with JSON.stringify(metadata || {})
LedgerInit ==
    /\ pipe \in {LSD, LOD}
    /\ ParkedRun
    /\ http = NoCall /\ store = NoStore /\ dimSku = NoDimSku
    /\ \E m \in Objects(StartKeys) :
         ledger = [status |-> "started", metadata |-> m, start |-> m, before |-> m,
                   patch |-> EmptyObject, finishes |-> 0, patched |-> {}]

\* finishIngestionRun(runId, status, ..., metadataPatch): the update of the row
LedgerFinish ==
    /\ ledger.finishes < MaxFinishes
    /\ \E st \in Finalized, patch \in Objects(PatchKeys) :
         ledger' = [ledger EXCEPT
                       !.status = st,
                       !.before = ledger.metadata,
                       !.patch = patch,
                       !.metadata = JsonbConcat(ledger.metadata, patch),
                       !.finishes = ledger.finishes + 1,
                       !.patched = ledger.patched \cup DOMAIN patch]
    /\ UNCHANGED <<parkedFrame, pipe, http, store, dimSku>>

LedgerNext == LedgerFinish

SpecLedger == LedgerInit /\ [][LedgerNext]_vars

\* C22: after every finish call the metadata holds every key of the patch
\* with the patch's value and every other key it held before the call with
\* the value it had; a key written at start that no patch contained still
\* has its start value, after a second call too.
C22_FinishMergesMetadata ==
    ledger.finishes > 0
    => /\ \A k \in DOMAIN ledger.patch :
            k \in DOMAIN ledger.metadata /\ ledger.metadata[k] = ledger.patch[k]
       /\ \A k \in DOMAIN ledger.before \ DOMAIN ledger.patch :
            k \in DOMAIN ledger.metadata /\ ledger.metadata[k] = ledger.before[k]
       /\ \A k \in DOMAIN ledger.start \ ledger.patched :
            k \in DOMAIN ledger.metadata /\ ledger.metadata[k] = ledger.start[k]
       /\ DOMAIN ledger.metadata = DOMAIN ledger.before \cup DOMAIN ledger.patch

\* a second finish: a start key kept, a start key overwritten, a key of the
\* first patch kept
C22_Witness ==
    /\ ledger.finishes = 2
    /\ "started_at" \in DOMAIN ledger.start
    /\ "page_size" \in DOMAIN ledger.start \cap DOMAIN ledger.patch
    /\ ledger.patch["page_size"] # ledger.start["page_size"]
    /\ "terminated" \in DOMAIN ledger.before \ DOMAIN ledger.patch
    /\ "finished_at" \in DOMAIN ledger.patch

\* C23 (as stated): when the stored window end does not parse to a finite
\* timestamp the run fails before any upstream request is issued and with no
\* ledger row created: the row never exists, no page is ever requested and
\* the process ends with a non-zero status.
C23_InvalidCursorFailsFast ==
    (Daily(pipe) /\ CursorEnd(pipe, cursor0) = InvalidIso)
    => /\ ledger.status = "none"
       /\ clock < Day(10) + RequestMs
       /\ pc \notin {"fetch", "begin", "stmt", "commit", "rollback", "set_cursor"}
       /\ proc = "exited" => exitCode # 0


(* Ledger row before the first request *)

\* C24 (as stated): in every pipeline run the ledger row in status started
\* has been created before the first request to the upstream source is
\* issued: a script that has issued a request has a ledger row.
C24_StartedBeforeFirstRequest ==
    /\ ledger.status # "none"
    /\ (dimSku.phase = "run" /\ dimSku.productRequests > 0)
         => dimSku.productLedger # "none"

----------------------------------------------------------------------------
(* SpecBatch: one batch that carries a natural key more than once *)

\* The page loop of loop_sync_subscriptions_daily and of loop_orders_daily
\* applies the records of a page in the order delivered, inside one
\* transaction, and commits; the batch is then delivered once more, as an
\* overlapping window does.

MaxBatchLen == 3     \* records of the batch

BatchScripts == {LSD, LOD}

BatchValues == {"a", "b"}

\* the records a page can deliver: headers and lines of one subscription or
\* order, with the values of their columns; a subscription line may lack its id
BatchRecords(p) ==
    IF p = LSD
    THEN {[shape |-> "subscription", k1 |-> 1, k2 |-> 0, sku |-> NoSku, val |-> v] :
            v \in BatchValues}
         \cup {[shape |-> "subscription_line", k1 |-> 1, k2 |-> id, sku |-> sku,
                 val |-> v] :
                 id \in {NoId, 11}, sku \in {"A", "B"}, v \in BatchValues}
    ELSE {[shape |-> "order", k1 |-> 1, k2 |-> 0, sku |-> NoSku, val |-> v] :
            v \in BatchValues}
         \cup {[shape |-> "loop_order_line", k1 |-> 1, k2 |-> variant, sku |-> sku,
                 val |-> v] :
                 variant \in {0, 7}, sku \in {NoSku, "A"}, v \in BatchValues}

\* the conflict target of the record's upsert
NaturalKey(r) ==
    IF r.shape = "loop_order_line" THEN <<r.shape, r.k1, r.k2, r.sku>>
    ELSE <<r.shape, r.k1, r.k2, NoSku>>

\* the stored rows of a record's natural key
RowsOfKey(rows, r) ==
    {x \in rows : /\ x.tbl = r.shape /\ x.k1 = r.k1 /\ x.k2 = r.k2
                  /\ (r.shape = "loop_order_line" => x.sku = r.sku)}

BatchInit ==
    /\ ParkedRun
    /\ pipe \in BatchScripts
    /\ ledger = StartedRow
    /\ http = NoCall
    /\ dimSku = NoDimSku
    /\ \E n \in 2..MaxBatchLen : \E b \in [1..n -> BatchRecords(pipe)] :
         store = [phase |-> "apply", batch |-> b, pass |-> 1, pos |-> 1,
                  rows |-> {}, txn0 |-> {}, once |-> {}, serial |-> 1]

SpecBatch == BatchInit /\ [][ApplyNext]_vars

\* the batch has committed (the snapshot store.once is taken at its COMMIT)
BatchCommitted == store.phase \in {"apply", "rollback", "done", "failed"} /\ store.pass = 2

\* C25: later in batch wins.  If one batch contains two records with the
\* same natural key, then after the batch commits there is exactly one stored
\* row for that key and it holds the values of the record delivered later.
C25_LaterInBatchWins ==
    BatchCommitted
    => \A i, j \in 1..Len(store.batch) :
         (/\ i < j
          /\ NaturalKey(store.batch[i]) = NaturalKey(store.batch[j])
          /\ \A k \in (j + 1)..Len(store.batch) :
                NaturalKey(store.batch[k]) # NaturalKey(store.batch[j]))
         => \E x \in store.once :
              /\ RowsOfKey(store.once, store.batch[j]) = {x}
              /\ x.val = store.batch[j].val
              /\ x.sku = store.batch[j].sku

\* a committed batch that carried a key twice with different values
C25_Witness ==
    /\ BatchCommitted
    /\ \E i, j \in 1..Len(store.batch) :
         /\ i < j
         /\ NaturalKey(store.batch[i]) = NaturalKey(store.batch[j])
         /\ store.batch[i].val # store.batch[j].val
         /\ \E x \in store.once :
              RowsOfKey(store.once, store.batch[j]) = {x} /\ x.val = store.batch[j].val

----------------------------------------------------------------------------
(* SpecSync: the daily pipelines run at the same time against ops.sync_state *)

\* Each daily script is its own process: it reads its cursor with
\* getSyncCursor(STATE_KEY) at the start of a run and, when the page loop
\* ends, writes it with setSyncCursor(STATE_KEY, value); a run that fails
\* writes nothing.  The steps of the processes interleave freely.

MaxSyncRuns == 2     \* runs of each pipeline

\* every script would use one key
STATE_KEY_Shared(p) == "daily"

\* const STATE_KEY of the script
STATE_KEY(p) ==
    CASE p = LSD -> "loop_subscriptions_daily"
      [] p = LOD -> "loop_orders_daily"
      [] p = SOD -> "shopify_orders_daily"

SyncKeys == {"loop_subscriptions_daily", "loop_orders_daily", "shopify_orders_daily",
             "daily"}

NoSyncRow == [present |-> FALSE]

\* select value from ops.sync_state where key = $1
getSyncCursor(table, key) == table[key]

\* insert into ops.sync_state (key, value, updated_at) values ($1, $2, now())
\* on conflict (key) do update set value = excluded.value
setSyncCursor(table, key, value) ==
    [table EXCEPT ![key] = [present |-> TRUE, value |-> value]]

SyncInit ==
    /\ ParkedRun
    /\ pipe = LSD
    /\ ledger = StartedRow
    /\ http = NoCall
    /\ dimSku = NoDimSku
    /\ \E had \in SUBSET DailyPipelines :
         store = [phase |-> "sync",
                  table |-> [k \in SyncKeys |->
                               IF \E p \in had : STATE_KEY(p) = k
                               THEN [present |-> TRUE, value |-> <<k, 0>>]
                               ELSE NoSyncRow],
                  run |-> [p \in DailyPipelines |->
                             [pos |-> "idle", runs |-> 0, readKey |-> "none",
                              seen |-> NoSyncRow, wroteKey |-> "none"]],
                  by |-> "none"]

syncFrame == <<parkedFrame, pipe, ledger, http, dimSku>>

\* the run starts and reads its cursor
SyncGet(p) ==
    /\ store.phase = "sync"
    /\ store.run[p].pos = "idle"
    /\ store.run[p].runs < MaxSyncRuns
    /\ store' = [store EXCEPT
                    !.run[p].pos = "running",
                    !.run[p].runs = store.run[p].runs + 1,
                    !.run[p].readKey = STATE_KEY(p),
                    !.run[p].seen = getSyncCursor(store.table, STATE_KEY(p)),
                    !.by = p]
    /\ UNCHANGED syncFrame

\* the page loop ended: the run writes its cursor and ends
SyncSet(p) ==
    /\ store.phase = "sync"
    /\ store.run[p].pos = "running"
    /\ store' = [store EXCEPT
                    !.table = setSyncCursor(store.table, STATE_KEY(p),
                                            <<p, store.run[p].runs>>),
                    !.run[p].pos = "idle",
                    !.run[p].wroteKey = STATE_KEY(p),
                    !.by = p]
    /\ UNCHANGED syncFrame

\* the run fails before the cursor write
SyncFail(p) ==
    /\ store.phase = "sync"
    /\ store.run[p].pos = "running"
    /\ store' = [store EXCEPT !.run[p].pos = "idle", !.by = p]
    /\ UNCHANGED syncFrame

SyncNext == \E p \in DailyPipelines : SyncGet(p) \/ SyncSet(p) \/ SyncFail(p)

SpecSync == SyncInit /\ [][SyncNext]_vars

\* C26: the watermark key is pipeline-scoped.  A run reads and writes only
\* the ops.sync_state row of its own pipeline's key, and under any
\* interleaving of the daily pipelines no step of one pipeline's run changes
\* the cursor of another pipeline.
C26_CursorKeyPipelineScoped ==
    [][/\ \A p \in DailyPipelines :
            /\ store'.run[p].readKey \in {"none", STATE_KEY(p)}
            /\ store'.run[p].wroteKey \in {"none", STATE_KEY(p)}
       /\ \A q \in DailyPipelines \ {store'.by} :
            getSyncCursor(store'.table, STATE_KEY(q))
              = getSyncCursor(store.table, STATE_KEY(q))]_vars

\* one pipeline has written its cursor while the two others are in a run
C26_Witness ==
    /\ store.phase = "sync"
    /\ \E p \in DailyPipelines :
         /\ store.run[p].wroteKey = STATE_KEY(p)
         /\ store.table[STATE_KEY(p)] = [present |-> TRUE, value |-> <<p, 1>>]
         /\ \A q \in DailyPipelines \ {p} :
              /\ store.run[q].pos = "running"
              /\ store.run[q].seen = store.table[STATE_KEY(q)]

----------------------------------------------------------------------------
(* SpecSheet: the cashflow / inventory sheet ingestion *)

\* The handler runs under withIngestionRun: it reads the sheet, parses the
\* forecast rows, then on one connection issues begin, the snapshot insert,
\* one upsert per forecast row and commit; on an exception it issues
\* rollback (a failure of the rollback is swallowed), rethrows, and releases
\* the connection.  The handler never calls ctx.beginTxn, so a shutdown does
\* not roll back; it finalizes the ledger row, releases the connection, ends
\* the pool and exits, while the handler keeps running until the exit.
\* Server side: a failed statement aborts the open transaction, a statement
\* outside a transaction commits by itself, and a closed connection rolls
\* its transaction back.

MaxForecastRows == 2   \* rows parsed from the sheet

SHEET == "sheets_cashflow_inventory_2026"

UNIT_ECON == "sheets_unit_econ_master_reference"

\* the two sheet ingestions: the unit-economics handler issues its snapshot
\* insert and its offer, assumption and reorder-rule upserts on one
\* connection inside try / finally, with no begin, commit or rollback
SheetScripts == {SHEET, UNIT_ECON}

\* the k-th row after the snapshot: a forecast row, or an offer, assumption
\* or reorder rule
SheetRow(p, k) == IF p = SHEET THEN <<"forecast", k>> ELSE <<"reference", k>>

SheetRowsToWrite(n) == {<<"snapshot", 0>>} \cup {<<"forecast", k>> : k \in 1..n}

\* the script would not issue begin
SheetBeginOmitted(db) == db

\* await client.query("begin")
SheetBegin(db) == [db EXCEPT !.txn = "open"]

\* an insert or upsert that succeeds
SheetWrite(db, row) ==
    CASE db.txn = "open" -> [db EXCEPT !.pending = db.pending \cup {row}]
      [] db.txn = "none" -> [db EXCEPT !.committed = db.committed \cup {row}]
      [] OTHER -> db

\* an insert or upsert that fails
SheetWriteFails(db) ==
    IF db.txn = "open" THEN [db EXCEPT !.txn = "aborted"] ELSE db

\* await client.query("commit")
SheetCommit(db) ==
    IF db.txn = "open"
    THEN [db EXCEPT !.committed = db.committed \cup db.pending, !.pending = {},
                    !.txn = "none"]
    ELSE [db EXCEPT !.pending = {}, !.txn = "none"]

\* await client.query("rollback"), or the connection is closed
SheetRollback(db) == [db EXCEPT !.pending = {}, !.txn = "none"]

SheetInit ==
    /\ ParkedRun
    /\ pipe \in SheetScripts
    /\ ledger = StartedRow
    /\ http = NoCall
    /\ dimSku = NoDimSku
    /\ \E n \in 0..MaxForecastRows :
         store = [phase |-> "sheet", pos |-> "read", n |-> n, i |-> 1,
                  db |-> [txn |-> "none", pending |-> {}, committed |-> {}],
                  writeFailed |-> FALSE, thrown |-> FALSE, sd |-> "idle",
                  exit |-> -1]

sheetFrame == <<parkedFrame, pipe, http, dimSku>>

\* where an exception inside the try block goes: the catch with its rollback,
\* or straight to the finally of a handler without catch
AfterSheetError(p) == IF p = SHEET THEN "rollback" ELSE "release"

SheetRunning == store.phase = "sheet" /\ store.exit = -1

\* getSheetsClient, spreadsheets.values.get, findMonthHeader and the parsers,
\* then pool.connect and ctx.setClient
SheetRead ==
    /\ SheetRunning /\ store.pos = "read"
    /\ \/ store' = [store EXCEPT !.pos = IF pipe = SHEET THEN "begin" ELSE "snapshot"]
       \/ store' = [store EXCEPT !.pos = "finish", !.thrown = TRUE]
    /\ UNCHANGED <<sheetFrame, ledger>>

\* begin
SheetStmtBegin ==
    /\ SheetRunning /\ store.pos = "begin"
    /\ \/ store' = [store EXCEPT !.db = SheetBegin(store.db), !.pos = "snapshot"]
       \/ store' = [store EXCEPT !.pos = "rollback", !.thrown = TRUE]
    /\ UNCHANGED <<sheetFrame, ledger>>

\* upsertSnapshot
SheetStmtSnapshot ==
    /\ SheetRunning /\ store.pos = "snapshot"
    /\ \/ store' = [store EXCEPT !.db = SheetWrite(store.db, <<"snapshot", 0>>),
                                  !.pos = "rows"]
       \/ store' = [store EXCEPT !.db = SheetWriteFails(store.db),
                                  !.writeFailed = TRUE, !.thrown = TRUE,
                                  !.pos = AfterSheetError(pipe)]
    /\ UNCHANGED <<sheetFrame, ledger>>

\* for (const r of allRows) upsertDemandForecastSupplyItem
SheetStmtForecast ==
    /\ SheetRunning /\ store.pos = "rows"
    /\ IF store.i > store.n
       THEN store' = [store EXCEPT !.pos = IF pipe = SHEET THEN "commit"
                                              ELSE "release"]
       ELSE \/ store' = [store EXCEPT
                            !.db = SheetWrite(store.db, SheetRow(pipe, store.i)),
                            !.i = store.i + 1]
            \/ store' = [store EXCEPT !.db = SheetWriteFails(store.db),
                                       !.writeFailed = TRUE, !.thrown = TRUE,
                                       !.pos = AfterSheetError(pipe)]
    /\ UNCHANGED <<sheetFrame, ledger>>

\* commit
SheetStmtCommit ==
    /\ SheetRunning /\ store.pos = "commit"
    /\ \/ store' = [store EXCEPT !.db = SheetCommit(store.db), !.pos = "release"]
       \/ store' = [store EXCEPT !.db = SheetWriteFails(store.db),
                                  !.thrown = TRUE, !.pos = "rollback"]
    /\ UNCHANGED <<sheetFrame, ledger>>

\* catch (err) { try { rollback } catch (_) {} throw err }
SheetStmtRollback ==
    /\ SheetRunning /\ store.pos = "rollback"
    /\ \/ store' = [store EXCEPT !.db = SheetRollback(store.db), !.pos = "release"]
       \/ store' = [store EXCEPT !.pos = "release"]
    /\ UNCHANGED <<sheetFrame, ledger>>

\* finally { ctx.setClient(null); client.release() }
SheetRelease ==
    /\ SheetRunning /\ store.pos = "release"
    /\ store' = [store EXCEPT !.pos = "finish"]
    /\ UNCHANGED <<sheetFrame, ledger>>

\* withIngestionRun after the handler: the ledger row is finalized, the pool
\* ends (the released connection is closed) and the process ends
SheetFinish ==
    /\ SheetRunning /\ store.pos = "finish"
    /\ ledger' = finishIngestionRun(ledger,
                                    IF store.thrown THEN "failed" ELSE "succeeded",
                                    Patch(FALSE, FALSE))
    /\ store' = [store EXCEPT !.db = SheetRollback(store.db), !.pos = "done",
                              !.exit = IF store.thrown THEN 1 ELSE 0]
    /\ UNCHANGED sheetFrame

\* SIGINT / SIGTERM: gracefulShutdown starts; inTxn is false, no rollback
SheetSignal ==
    /\ SheetRunning /\ store.sd = "idle"
    /\ store' = [store EXCEPT !.sd = "finish"]
    /\ UNCHANGED <<sheetFrame, ledger>>

\* gracefulShutdown: finishIngestionRun(failed, terminated)
SheetShutdownFinish ==
    /\ SheetRunning /\ store.sd = "finish"
    /\ ledger' = finishIngestionRun(ledger, "failed", Patch(TRUE, FALSE))
    /\ store' = [store EXCEPT !.sd = "exit"]
    /\ UNCHANGED sheetFrame

\* gracefulShutdown: activeClient.release(), pool.end(), process.exit(1)
SheetShutdownExit ==
    /\ SheetRunning /\ store.sd = "exit"
    /\ store' = [store EXCEPT !.db = SheetRollback(store.db), !.sd = "done",
                              !.exit = 1]
    /\ UNCHANGED <<sheetFrame, ledger>>

SheetNext ==
    \/ SheetRead
    \/ SheetStmtBegin \/ SheetStmtSnapshot \/ SheetStmtForecast \/ SheetStmtCommit
    \/ SheetStmtRollback \/ SheetRelease \/ SheetFinish
    \/ SheetSignal \/ SheetShutdownFinish \/ SheetShutdownExit

SpecSheet == SheetInit /\ [][SheetNext]_vars

\* C27: the sheet ingestion writes its snapshot row and all its forecast
\* rows in a single transaction: at any time either none or all of them are
\* committed, and after a failure of any of these writes none is committed.
C27_SheetWritesAtomic ==
    (store.phase = "sheet" /\ pipe = SHEET)
    => /\ store.db.committed \in {{}, SheetRowsToWrite(store.n)}
       /\ store.writeFailed => store.db.committed = {}

\* a forecast upsert failed after the snapshot insert had succeeded, and the
\* process has ended
C27_Witness ==
    /\ store.phase = "sheet" /\ pipe = SHEET
    /\ store.writeFailed /\ store.i = 2 /\ store.n = 2
    /\ store.exit = 1
    /\ store.db.committed = {}

----------------------------------------------------------------------------
(* Further properties of the client, checked under SpecClient *)

\* C28 (as stated): for every 429 response, whatever the Retry-After header
\* holds (absent, zero, a number, or a non-numeric value such as an HTTP
\* date), the wait before the next attempt is at least 1000 ms.
C28_RetryAfterFloor ==
    http.outcome = "429" => http.wait >= 1000

\* C29: bounded attempts.  For every sequence of responses one
\* requestWithRetry call issues at most maxAttempts requests and then either
\* returns a 2xx response or raises; 429 responses use up the same attempt
\* budget as 5xx responses and transport failures.
C29_AttemptBudget ==
    http.phase \notin {"none"}
    => /\ http.requests <= http.maxAttempts
       /\ http.requests <= http.attempt /\ http.attempt <= http.requests + 1
       /\ http.attempt > http.maxAttempts => http.phase = "threw"
       /\ http.phase = "returned" => (http.status >= 200 /\ http.status < 300)
       /\ http.phase = "threw" => http.error # NoError

\* the default budget of 8 was used up and the last response was a 429
C29_Witness ==
    /\ http.phase = "threw" /\ http.error.kind = "exhausted"
    /\ http.maxAttempts = DefaultMaxAttempts
    /\ http.requests = DefaultMaxAttempts
    /\ http.outcome = "429"

----------------------------------------------------------------------------
(* One operation in flight, checked under Spec *)

\* main() awaits an HTTP request or a database statement
MainInFlight ==
    /\ proc = "running"
    /\ pc \in {"start_run", "get_cursor", "fetch", "begin", "stmt", "commit",
               "rollback", "set_cursor", "finish_succeeded", "finish_failed"}

\* gracefulShutdown awaits its ROLLBACK or its finishIngestionRun
ShutdownInFlight ==
    /\ proc = "running"
    /\ sdPc \in {"rollback", "finish"}

\* C30 (as stated): within one run at most one I/O operation (one HTTP
\* request or one database statement) is in flight at any time, also while
\* the shutdown path triggered by a signal or an unhandled failure executes.
C30_OneOperationInFlight == ~(MainInFlight /\ ShutdownInFlight)

----------------------------------------------------------------------------
(* The catalog row, checked under SpecStub *)

\* C31: after the product sync has upserted the SKU, the dim_sku row carries
\* the catalog's values with no stub marker, whatever row (none, stub or
\* catalog) existed before, and it stays so under every later stub-creation
\* attempt of the order and subscription pipelines: no such attempt holds a
\* pending insert of the SKU either.
C31_CatalogRowOverwritesStub ==
    (dimSku.phase = "run" /\ dimSku.syncs > 0)
    => /\ dimSku.row = ProductRow
       /\ ~dimSku.row.stub
       /\ \A c \in Creators : ~dimSku.conn[c].pending.present

\* a stub existed, the product sync overwrote it, and the last step was a
\* pipeline's stub-creation attempt (its existence check) after that
C31_Witness ==
    /\ dimSku.phase = "run" /\ dimSku.syncs > 0
    /\ dimSku.before.present /\ dimSku.before.stub
    /\ dimSku.row = ProductRow
    /\ \E c \in Creators : dimSku.by = c /\ dimSku.conn[c].pos = "called"

----------------------------------------------------------------------------
(* The legacy cursor, checked under SpecPlan *)

\* a stored cursor without last_end_iso that holds the legacy field
LegacyCursor(cur) ==
    /\ cur.present
    /\ cur.last_end_iso.t = "null"
    /\ cur.last_max_updated_at.t = "iso"

\* C32: in the Loop subscriptions daily sync a stored cursor that has no
\* last_end_iso but has the legacy max-updated-at field yields window start
\* = legacy value - overlap (not now - lookback), and the cursor the run
\* writes on success is in the new format: last_end_iso set to the window
\* end, no legacy field.
C32_LegacyCursorMigrates ==
    [][(pipe = LSD /\ LegacyCursor(cursor))
       => /\ plan' # NoPlan
             => /\ ~plan'.threw
                /\ plan'.windowStart
                     = Iso(cursor.last_max_updated_at.ms - overlapHours * MsPerHour)
          /\ cursor' # cursor
             => /\ cursor'.last_end_iso.t = "iso"
                /\ cursor'.last_end_iso = plan.windowEnd
                /\ cursor'.last_max_updated_at.t = "null"]_vars

\* the window of a run that read the legacy cursor, overlap 48 hours
C32_Witness ==
    /\ pipe = LSD /\ LegacyCursor(cursor)
    /\ plan # NoPlan /\ overlapHours = OVERLAP_HOURS
    /\ plan.windowStart = Iso(Day(8) - OVERLAP_HOURS * MsPerHour)
    /\ plan.windowEnd.t = "iso"

----------------------------------------------------------------------------
(* The unit-economics sheet, checked under SpecSheet *)

\* C33 (as stated): in the unit-economics sheet ingestion, if any write
\* fails, none of the run's earlier writes (snapshot row, offer rows,
\* assumption rows, reorder rules) remains committed and the ledger row ends
\* failed.
C33_UnitEconNeverPartial ==
    (store.phase = "sheet" /\ pipe = UNIT_ECON /\ store.writeFailed)
    => /\ store.db.committed = {}
       /\ store.exit # -1 => ledger.status = "failed"

----------------------------------------------------------------------------
(* Repeated faults, checked under Spec *)

\* how far gracefulShutdown has come
SdRank(p) ==
    CASE p = "idle" -> 0 [] p = "rollback" -> 1 [] p = "finish" -> 2
      [] p = "exit" -> 3 [] p = "done" -> 4

\* C34: if several process-level faults occur in one run, the shutdown path
\* runs once: once it has started it never starts again and only moves
\* forward, so it issues its failed-finalization write to the ledger at most
\* once, and a later fault changes neither its position nor its reason.
C34_ShutdownRunsOnce ==
    [][shuttingDown
       => /\ shuttingDown'
          /\ SdRank(sdPc') >= SdRank(sdPc)
          /\ sdReason' \in {sdReason, "none"}
          /\ (ledger' # ledger /\ sdPc' # sdPc) => (sdPc = "finish" /\ sdPc' = "exit")]_vars

\* the shutdown path has written its finalization and is about to exit
C34_Witness ==
    /\ shuttingDown /\ sdPc = "exit" /\ proc = "running"
    /\ ledger.status = "failed" /\ ledger.terminated

----------------------------------------------------------------------------
(* The Shopify watermark, checked under Spec *)

\* timestamps of the orders of the run whose writes are all committed
CommittedUpdatedAt ==
    {RecUpdatedAt(pn, r).ms : pn \in {q \in 1..NumPages : TRUE},
                              r \in {x \in 1..PageLen : TRUE}}
      \cap {RecUpdatedAt(w[1], w[2]).ms :
              w \in {v \in committed : RecWrites(v[1], v[2]) \subseteq committed}}

SetMax(S) == CHOOSE m \in S : \A x \in S : x <= m

\* the stored last_max_updated_at is not earlier than before the run
C35_NotBackwards ==
    cursor0.last_max_updated_at.t = "iso"
    => /\ cursor.last_max_updated_at.t = "iso"
       /\ cursor.last_max_updated_at.ms >= cursor0.last_max_updated_at.ms

\* C35 (as stated): across runs of the Shopify orders daily sync the stored
\* last_max_updated_at never moves backwards: after a successful run it is
\* the maximum of its previous value (the lookback start when none is
\* stored) and the updated-at timestamps of the orders committed in that
\* run, and after a failed run it is unchanged.
C35_WatermarkMonotone ==
    (pipe = SOD /\ proc = "exited")
    => /\ C35_NotBackwards
       /\ ledger.status = "succeeded"
            => cursor.last_max_updated_at
                 = Iso(SetMax(CommittedUpdatedAt \cup {plan.lastEnd.ms}))
       /\ ledger.status # "succeeded" => cursor = cursor0

----------------------------------------------------------------------------
(* SpecBackfill: the Shopify orders backfill and its local state file *)

\* A run loads the state file and continues from its page_info (from the
\* first page when there is none).  Each order of a fetched page is applied
\* in its own transaction; right after a COMMIT, when the run's order count
\* is a multiple of 500, the state is saved with page_info = the pointer to
\* the next page; after the last order of a page the state is saved with the
\* same pointer.  LIMIT = 250 is the maximum a page holds; the upstream may
\* deliver fewer orders on any page.  A write may fail (the run ends failed)
\* and the process may be stopped at any await; a later run resumes.

BackfillLimit == 2        \* LIMIT, scaled: the maximum a page holds
MaxBackfillPages == 4     \* pages the upstream holds
MaxBackfillRuns == 2      \* runs, the first and the resumed ones

\* the progress save happens every 500 orders, twice LIMIT
ProgressEvery == 2 * BackfillLimit

\* the pointer the Link header of page pn carries: the next page, or none
\* (0) on the last page
nextPageInfo(pn, n) == IF pn < n THEN pn + 1 ELSE 0

\* the page a request with this page_info returns
PageOf(pageInfo) == IF pageInfo = 0 THEN 1 ELSE pageInfo

BackfillInit ==
    /\ ParkedRun
    /\ pipe = SOB
    /\ ledger = StartedRow
    /\ http = NoCall
    /\ dimSku = NoDimSku
    /\ \E n \in 2..MaxBackfillPages : \E lens \in [1..n -> 1..BackfillLimit] :
         store = [phase |-> "backfill", n |-> n, lens |-> lens,
                  saved |-> 0, pageInfo |-> 0, k |-> 0, ordersUpserted |-> 0,
                  pos |-> "fetch", committed |-> {}, runs |-> 1,
                  exit |-> "none"]

backfillFrame == <<parkedFrame, pipe, ledger, http, dimSku>>

\* requestWithRetry("GET", "/orders.json"): the page arrives, or the request
\* fails and the run ends failed
BackfillFetch ==
    /\ store.phase = "backfill" /\ store.pos = "fetch"
    /\ \/ store' = [store EXCEPT !.pos = "orders", !.k = 0]
       \/ store' = [store EXCEPT !.pos = "stopped", !.exit = "failed"]
    /\ UNCHANGED backfillFrame

\* one order: BEGIN, its writes, COMMIT, then the progress save and, after
\* the last order of the page, the save at the end of the page; or a write
\* fails: ROLLBACK, the run ends failed
BackfillOrder ==
    /\ store.phase = "backfill" /\ store.pos = "orders"
    /\ LET pn == PageOf(store.pageInfo)
           next == nextPageInfo(pn, store.n)
           done == store.ordersUpserted + 1
           last == store.k + 1 = store.lens[pn]
       IN  \/ store' = [store EXCEPT
                           !.committed = store.committed \cup {<<pn, store.k + 1>>},
                           !.k = store.k + 1,
                           !.ordersUpserted = done,
                           !.saved = IF last \/ done % ProgressEvery = 0
                                     THEN next ELSE store.saved,
                           !.pageInfo = IF last THEN next ELSE store.pageInfo,
                           !.pos = IF ~last THEN "orders"
                                   ELSE IF next = 0 THEN "stopped" ELSE "fetch",
                           !.exit = IF last /\ next = 0 THEN "succeeded"
                                    ELSE store.exit]
           \/ store' = [store EXCEPT !.pos = "stopped", !.exit = "failed"]
    /\ UNCHANGED backfillFrame

\* the process is stopped (the script installs no signal handler)
BackfillKill ==
    /\ store.phase = "backfill" /\ store.pos \in {"fetch", "orders"}
    /\ store' = [store EXCEPT !.pos = "stopped", !.exit = "killed"]
    /\ UNCHANGED backfillFrame

\* the next run: loadState() and `let pageInfo = state.page_info`
BackfillResume ==
    /\ store.phase = "backfill" /\ store.pos = "stopped"
    /\ store.runs < MaxBackfillRuns
    /\ store' = [store EXCEPT !.runs = store.runs + 1, !.pageInfo = store.saved,
                              !.k = 0, !.ordersUpserted = 0, !.pos = "fetch",
                              !.exit = "none"]
    /\ UNCHANGED backfillFrame

BackfillNext == BackfillFetch \/ BackfillOrder \/ BackfillKill \/ BackfillResume

SpecBackfill == BackfillInit /\ [][BackfillNext]_vars

PageCommitted(q) == \A i \in 1..store.lens[q] : <<q, i>> \in store.committed

\* C36 (as stated): every page_info value saved to the state file designates
\* a page all of whose predecessor pages have been fully committed, so a run
\* that resumes from the saved state skips no order that was not committed.
C36_SavedPageInfoSafe ==
    (store.phase = "backfill" /\ store.saved # 0)
    => \A q \in 1..(store.saved - 1) : PageCommitted(q)

\* the upstream delivered every page but the last one full
FullPages == \A q \in 1..(store.n - 1) : store.lens[q] = BackfillLimit

\* C36, the part that holds: when every page before the last is full, the
\* progress save falls on the last order of a page and the saved pointer
\* has only committed pages before it.
C36_SafeWhenPagesFull ==
    (store.phase = "backfill" /\ FullPages /\ store.saved # 0)
    => \A q \in 1..(store.saved - 1) : PageCommitted(q)

C36_ResumedWithFullPages ==
    /\ store.phase = "backfill" /\ FullPages
    /\ store.runs > 1 /\ store.saved > 2 /\ store.k > 0

----------------------------------------------------------------------------
(* SpecInventory: one run of the Shopify inventory snapshot *)

\* main: startIngestionRun, loadSkuInventoryMap, fetchLocations, then for
\* each location and each chunk of inventory item ids the pages of
\* /inventory_levels.json and one upsert per returned level, the release of
\* the client, finishIngestionRun(succeeded); the catch writes failed, the
\* finally ends the pool.  Every request and every statement either
\* succeeds or fails; store.fault records that one of them failed.

MaxInvSkus == 3        \* SKUs of ops.dim_sku that carry an inventory item id
MaxLocations == 2      \* locations left after the allowlist filter
MaxLevelPages == 2     \* pages of one /inventory_levels.json listing
MaxLevels == 1         \* levels one page returns

\* INVENTORY_ITEM_ID_CHUNK, scaled
INVENTORY_ITEM_ID_CHUNK == 2

\* chunk(arr, n).length
ChunkCount(len, n) == (len + n - 1) \div n

\* `if (!skusWithInvId) throw`, demanding more than one
HasInvIdsStrict(k) == k > 1

\* `if (!skusWithInvId) throw`: the run goes on when the count is not zero
HasInvIds(k) == k # 0

\* extractNextPageInfo on the Link header of page pg of n (0: no next page)
NextLevelsPage(pg, n) == IF pg < n THEN pg + 1 ELSE 0

InvInit ==
    /\ ParkedRun
    /\ pipe = INV
    /\ ledger = NoRow
    /\ http = NoCall
    /\ dimSku = NoDimSku
    /\ \E k \in 0..MaxInvSkus : \E l \in 0..MaxLocations : \E n \in 1..MaxLevelPages :
         store = [phase |-> "inv", pos |-> "start", skusWithInvId |-> k,
                  locations |-> l, pages |-> n, loc |-> 1, ch |-> 1, page |-> 1,
                  levels |-> 0, rowsUpserted |-> 0, fault |-> FALSE,
                  thrown |-> FALSE, exit |-> -1]

invFrame == <<parkedFrame, pipe, http, dimSku>>

\* an exception inside the inner try: finally client.release(), then the catch
InvThrowInner == [store EXCEPT !.fault = TRUE, !.thrown = TRUE, !.pos = "release"]

\* startIngestionRun, before the try: a failure rejects main()
InvStart ==
    /\ store.phase = "inv" /\ store.pos = "start"
    /\ \/ ledger' = StartedRow /\ store' = [store EXCEPT !.pos = "load"]
       \/ ledger' = ledger
          /\ store' = [store EXCEPT !.fault = TRUE, !.pos = "done", !.exit = 1]
    /\ UNCHANGED invFrame

\* loadSkuInventoryMap and the check of skusWithInvId
InvLoadSkus ==
    /\ store.phase = "inv" /\ store.pos = "load"
    /\ \/ store' = IF ~HasInvIds(store.skusWithInvId)
                   THEN [store EXCEPT !.thrown = TRUE, !.pos = "failed"]
                   ELSE [store EXCEPT !.pos = "locations"]
       \/ store' = [store EXCEPT !.fault = TRUE, !.thrown = TRUE, !.pos = "failed"]
    /\ UNCHANGED <<invFrame, ledger>>

\* fetchLocations, the check of locations.length, pool.connect
InvFetchLocations ==
    /\ store.phase = "inv" /\ store.pos = "locations"
    /\ \/ store' = IF store.locations = 0
                   THEN [store EXCEPT !.thrown = TRUE, !.pos = "failed"]
                   ELSE [store EXCEPT !.pos = "levels"]
       \/ store' = [store EXCEPT !.fault = TRUE, !.thrown = TRUE, !.pos = "failed"]
    /\ UNCHANGED <<invFrame, ledger>>

\* fetchInventoryLevelsForLocation: one page of the listing
InvFetchLevels ==
    /\ store.phase = "inv" /\ store.pos = "levels"
    /\ \/ \E got \in 0..MaxLevels :
            LET next == NextLevelsPage(store.page, store.pages)
            IN  store' = [store EXCEPT !.levels = store.levels + got,
                                       !.page = IF next = 0 THEN 1 ELSE next,
                                       !.pos = IF next = 0 THEN "write" ELSE "levels"]
       \/ store' = InvThrowInner
    /\ UNCHANGED <<invFrame, ledger>>

\* the loop over the returned levels: a level of an unknown inventory item is
\* passed over, the others are upserted one statement each
InvWrite ==
    /\ store.phase = "inv" /\ store.pos = "write" /\ store.levels > 0
    /\ \/ store' = [store EXCEPT !.levels = store.levels - 1,
                                 !.rowsUpserted = store.rowsUpserted + 1]
       \/ store' = [store EXCEPT !.levels = store.levels - 1]
       \/ store' = InvThrowInner
    /\ UNCHANGED <<invFrame, ledger>>

\* the next chunk, the next location, or the end of both loops
InvNextChunk ==
    /\ store.phase = "inv" /\ store.pos = "write" /\ store.levels = 0
    /\ LET chunks == ChunkCount(store.skusWithInvId, INVENTORY_ITEM_ID_CHUNK)
       IN  store' = IF store.ch < chunks
                    THEN [store EXCEPT !.ch = store.ch + 1, !.pos = "levels"]
                    ELSE IF store.loc < store.locations
                    THEN [store EXCEPT !.loc = store.loc + 1, !.ch = 1, !.pos = "levels"]
                    ELSE [store EXCEPT !.pos = "release"]
    /\ UNCHANGED <<invFrame, ledger>>

\* finally { client.release() }
InvRelease ==
    /\ store.phase = "inv" /\ store.pos = "release"
    /\ store' = [store EXCEPT !.pos = IF store.thrown THEN "failed" ELSE "finish"]
    /\ UNCHANGED <<invFrame, ledger>>

\* finishIngestionRun(runId, "succeeded", ...), the last statement of the try
InvFinishSucceeded ==
    /\ store.phase = "inv" /\ store.pos = "finish"
    /\ \/ ledger' = finishIngestionRun(ledger, "succeeded", Patch(FALSE, FALSE))
          /\ store' = [store EXCEPT !.pos = "end", !.exit = 0]
       \/ ledger' = ledger
          /\ store' = [store EXCEPT !.fault = TRUE, !.thrown = TRUE, !.pos = "failed"]
    /\ UNCHANGED invFrame

\* catch: finishIngestionRun(runId, "failed", ...), process.exitCode = 1
InvFinishFailed ==
    /\ store.phase = "inv" /\ store.pos = "failed"
    /\ \/ ledger' = finishIngestionRun(ledger, "failed", Patch(FALSE, FALSE))
          /\ store' = [store EXCEPT !.pos = "end", !.exit = 1]
       \/ ledger' = ledger
          /\ store' = [store EXCEPT !.fault = TRUE, !.pos = "end", !.exit = 1]
    /\ UNCHANGED invFrame

\* finally { await pool.end() }
InvPoolEnd ==
    /\ store.phase = "inv" /\ store.pos = "end"
    /\ store' = [store EXCEPT !.pos = "done"]
    /\ UNCHANGED <<invFrame, ledger>>

InvNext ==
    \/ InvStart \/ InvLoadSkus \/ InvFetchLocations \/ InvFetchLevels
    \/ InvWrite \/ InvNextChunk \/ InvRelease
    \/ InvFinishSucceeded \/ InvFinishFailed \/ InvPoolEnd

\* the process runs every awaited step to its end: a step that can be taken
\* is taken
SpecInventory == InvInit /\ [][InvNext]_vars /\ WF_vars(InvNext)

InvRunBegins == store.phase = "inv" /\ store.pos = "start"

InvEndsSucceededOrFaulted ==
    store.phase = "inv" /\ (store.fault \/ ledger.status = "succeeded")

----------------------------------------------------------------------------
(* Line items without SKU, under SpecApply *)

\* the order of the batch carries a line item whose SKU is empty or white space
BlankLineInBatch ==
    /\ store.phase \in {"apply", "rollback", "done", "failed"}
    /\ pipe \in {SOD, SOB}
    /\ store.batch[2].sku \in {NoSku, Blank}

HasRow(rows, r) == \E x \in rows : x.tbl = r.shape /\ x.k1 = r.k1 /\ x.k2 = r.k2

\* C38: a line item whose SKU is empty or white space produces no line-item
\* row and no stub SKU and is counted as skipped, and the order header, the
\* other line item and the refund of the same order are written and
\* committed all the same.
C38_BlankSkuLineSkipped ==
    BlankLineInBatch
    => /\ ~HasRow(store.rows, LineItemRec(NoSku))
       /\ \A x \in store.rows : x.tbl = "dim_sku" => x.sku \notin {NoSku, Blank}
       /\ (store.phase = "apply" /\ store.pos > 2) => store.lineItemsSkippedNoSku = 1
       /\ (store.phase = "rollback") => store.batch[store.pos].shape # "line_item"
       /\ (store.phase = "apply" /\ store.pos > 4)
          => /\ HasRow(store.rows, OrderRec)
             /\ HasRow(store.rows, OtherLineItemRec)
             /\ HasRow(store.rows, RefundRec)
       /\ store.pass = 2
          => /\ HasRow(store.once, OrderRec)
             /\ HasRow(store.once, OtherLineItemRec)
             /\ HasRow(store.once, RefundRec)
             /\ ~HasRow(store.once, LineItemRec(NoSku))

C38_Witness ==
    /\ BlankLineInBatch /\ store.batch[2].sku = Blank
    /\ store.pass = 2 /\ store.pos = 1
    /\ HasRow(store.once, OrderRec)
    /\ HasRow(store.once, OtherLineItemRec)
    /\ HasRow(store.once, RefundRec)
    /\ \E x \in store.once : x.tbl = "dim_sku" /\ x.sku = "B"

====
